---- MODULE Spec2Model ----
(***************************************************************************)
(* A model of the wasmtime-functions runtime: the per-invocation handle    *)
(* table (crates/runtime/src/host.rs) and the invocation dispatcher        *)
(* (crates/runtime/src/server.rs).                                         *)
(***************************************************************************)
EXTENDS Integers, Sequences, FiniteSets, TLC

\* ------------------------------------------------------------------ bounds

\* Concurrent invocations (one per inbound request being handled).
NumInv == 2
\* Handles one table allocates under Spec (the server with concurrent requests).
MaxHandles == 1
\* Handles one table allocates under TableSpec (one running sandbox).
MaxTableHandles == 2
\* Attributes a guest sets on one Cookie.
MaxAttrs == 1
\* Records (uses of a macro) per custom section of a module.
MaxRecords == 2
\* Payloads of a module besides its two descriptor sections.
MaxOther == 1

\* ------------------------------------------------------- program constants

\* A u32 is held as the i32 with the same 32 bits (the form in which a handle
\* crosses the guest boundary): 0..2147483647 are themselves, and 2147483648..
\* 4294967295 are -2147483648..-1. u32::MAX is the all-ones pattern.
U32Max == -1
I32Max == 2147483647
I32Min == -I32Max - 1

\* a < b as u32.
U32Less(a, b) == IF (a >= 0) = (b >= 0) THEN a < b ELSE a >= 0

\* u32::checked_add(1): None at u32::MAX.
CheckedAdd1(n) ==
    IF n = U32Max THEN [some |-> FALSE, v |-> 0]
    ELSE [some |-> TRUE, v |-> IF n = I32Max THEN I32Min ELSE n + 1]

Invs == 1..NumInv

\* types::Error codes returned to the guest.
Ok == "Ok"
InvalidHandle == "InvalidHandle"
InvalidArgument == "InvalidArgument"
InvalidUtf8 == "InvalidUtf8"
InvalidLength == "InvalidLength"
HandlesExhausted == "HandlesExhausted"
InvalidPointer == "InvalidPointer"
IntegerOverflow == "IntegerOverflow"
Panic == "Panic"

\* Option<T>
None == [some |-> FALSE]
Some(v) == [some |-> TRUE, v |-> v]

\* ------------------------------------------------------- guest arguments

\* Status codes a guest passes to response.new; 99 is no StatusCode.
StatusArgs == {200, 404, 99}
\* The codes StatusCode::try_from accepts, among those the guests pass.
ValidStatus(status) == status \in {200, 404}

\* A GuestPtr<str> either reads as a string or faults (invalid UTF-8).
BadStr == "\\xff"
HeaderNames == {"x-a"}
HeaderValues == {"1"}
StrOk(s) == s # BadStr

\* A GuestPtr<[u8]>: its length, and the bytes read (or a fault reading them).
Bodies == {<<>>, <<7>>}
BadSlice(len) == [len |-> len, ok |-> FALSE, bytes |-> <<>>]
GoodSlice(b) == [len |-> Len(b), ok |-> TRUE, bytes |-> b]

\* The map with key h bound to v.
MapPut(m, h, v) == [x \in (DOMAIN m) \cup {h} |-> IF x = h THEN v ELSE m[x]]
\* The map without key h.
MapDel(m, h) == [x \in (DOMAIN m) \ {h} |-> m[x]]
EmptyMap == [x \in {} |-> 0]

\* Inbound requests: method, uri, body, headers, cookies and the parameters
\* the route gave.
Requests == {[method |-> "GET", uri |-> "/a", body |-> <<>>,
              headers |-> EmptyMap, cookies |-> EmptyMap, params |-> EmptyMap],
             [method |-> "POST", uri |-> "/b", body |-> <<1>>,
              headers |-> MapPut(EmptyMap, "x-a", "12"),
              cookies |-> MapPut(EmptyMap, "c", "v"),
              params |-> MapPut(EmptyMap, "name", "Ada")]}

\* No request held (it was moved into the HostContext, or dropped).
NoReq == [method |-> "", uri |-> "", body |-> <<>>,
          headers |-> EmptyMap, cookies |-> EmptyMap, params |-> EmptyMap]

\* ------------------------------------------------------ HostContextInner

\* HandleContent::Response(tide::Response, Vec<u8>)
NewResponse(status) ==
    [kind |-> "Response", status |-> status, headers |-> EmptyMap,
     cookies |-> <<>>, body |-> <<>>]

\* HandleContent::Cookie(http_types::Cookie)
NewCookie(name, value) ==
    [kind |-> "Cookie", name |-> name, value |-> value, http_only |-> FALSE,
     secure |-> FALSE, max_age |-> "none", same_site |-> "none",
     domain |-> "none", path |-> "none"]

\* HostContext::new: an empty handle map, counter 0, the Request and its body.
NewContext(request) ==
    [request |-> request, handles |-> EmptyMap, last_handle |-> 0]

\* A dropped (or not yet created) HostContext.
NoCtx == [dropped |-> TRUE]

\* A result of a table operation: the error code, the value, the table after.
Res(err, val, c) == [err |-> err, val |-> val, ctx |-> c]

\* A faulty allocator, for comparison: it hands out the lowest value above the
\* number of live entries, so a value comes back after a free.
ReuseHandleValue(c) ==
    LET n == Cardinality(DOMAIN c.handles) + 1 IN
    Res(Ok, n, [c EXCEPT !.last_handle = n])

\* A faulty allocator, for comparison: wrapping_add(1) on last_handle.
WrapHandleValue(c) ==
    LET n == IF c.last_handle = U32Max THEN 0 ELSE CheckedAdd1(c.last_handle).v IN
    Res(Ok, n, [c EXCEPT !.last_handle = n])

\* next_handle_value: checked_add(1) on last_handle.
next_handle_value(c) ==
    LET n == CheckedAdd1(c.last_handle) IN
    IF n.some THEN Res(Ok, n.v, [c EXCEPT !.last_handle = n.v])
    ELSE Res(HandlesExhausted, 0, c)

\* A faulty insert_response, for comparison: the handle value is taken first
\* and the status is validated after.
AllocateThenValidate(c, status) ==
    LET n == next_handle_value(c) IN
    IF n.err # Ok THEN Res(n.err, 0, c)
    ELSE IF ~ValidStatus(status) THEN Res(InvalidArgument, 0, n.ctx)
    ELSE Res(Ok, n.val,
             [n.ctx EXCEPT !.handles = MapPut(@, n.val, NewResponse(status))])

\* insert_response: the status is validated before a handle value is taken.
insert_response(c, status) ==
    IF ~ValidStatus(status) THEN Res(InvalidArgument, 0, c)
    ELSE LET n == next_handle_value(c) IN
         IF n.err # Ok THEN Res(n.err, 0, c)
         ELSE Res(Ok, n.val,
                  [n.ctx EXCEPT !.handles = MapPut(@, n.val, NewResponse(status))])

insert_cookie(c, name, value) ==
    LET n == next_handle_value(c) IN
    IF n.err # Ok THEN Res(n.err, 0, c)
    ELSE Res(Ok, n.val,
             [n.ctx EXCEPT !.handles = MapPut(@, n.val, NewCookie(name, value))])

\* A faulty lookup, for comparison: any live entry passes for a Response.
GetAny(c, handle) ==
    IF handle \in DOMAIN c.handles THEN Some(c.handles[handle]) ELSE None

\* get_response / get_response_mut: Some only for an entry tagged Response.
get_response(c, handle) ==
    IF handle \in DOMAIN c.handles /\ c.handles[handle].kind = "Response"
    THEN Some(c.handles[handle]) ELSE None

\* get_cookie_mut: Some only for an entry tagged Cookie.
get_cookie_mut(c, handle) ==
    IF handle \in DOMAIN c.handles /\ c.handles[handle].kind = "Cookie"
    THEN Some(c.handles[handle]) ELSE None

\* A faulty remove, for comparison: it reports success and keeps the entry.
RemoveKeepsEntry(c, handle) ==
    IF ~get_response(c, handle).some THEN Res(InvalidHandle, None, c)
    ELSE Res(Ok, Some(c.handles[handle]), c)

\* remove_response: the kind is checked first; the unreachable!() arm is a panic.
remove_response(c, handle) ==
    IF ~get_response(c, handle).some THEN Res(InvalidHandle, None, c)
    ELSE IF handle \in DOMAIN c.handles /\ c.handles[handle].kind = "Response"
         THEN Res(Ok, Some(c.handles[handle]),
                  [c EXCEPT !.handles = MapDel(@, handle)])
         ELSE Res(Panic, None, [c EXCEPT !.handles = MapDel(@, handle)])

remove_cookie(c, handle) ==
    IF ~get_cookie_mut(c, handle).some THEN Res(InvalidHandle, None, c)
    ELSE IF handle \in DOMAIN c.handles /\ c.handles[handle].kind = "Cookie"
         THEN Res(Ok, Some(c.handles[handle]),
                  [c EXCEPT !.handles = MapDel(@, handle)])
         ELSE Res(Panic, None, [c EXCEPT !.handles = MapDel(@, handle)])

\* A faulty take_response, for comparison: a handle that names no Response
\* yields an empty 200 Response instead of None.
TakeOrDefault(c, handle) ==
    IF get_response(c, handle).some
    THEN Res(Ok,
             Some([status |-> c.handles[handle].status,
                   headers |-> c.handles[handle].headers,
                   cookies |-> c.handles[handle].cookies,
                   body |-> c.handles[handle].body]),
             [c EXCEPT !.handles = [x \in (DOMAIN @) \ {handle} |-> @[x]]])
    ELSE Res(Ok,
             Some([status |-> 200, headers |-> [x \in {} |-> 0],
                   cookies |-> <<>>, body |-> <<>>]),
             c)

\* A faulty take_response, for comparison: the Response is rebuilt from its
\* status and body, without its headers and cookies.
TakeBare(c, handle) ==
    LET r == remove_response(c, handle) IN
    IF r.err # Ok THEN Res(r.err, None, r.ctx)
    ELSE Res(Ok,
             Some([status |-> r.val.v.status, headers |-> EmptyMap,
                   cookies |-> <<>>, body |-> r.val.v.body]),
             r.ctx)

\* HostContext::take_response: remove as a Response, then set_body(body).
take_response(c, handle) ==
    LET r == remove_response(c, handle) IN
    IF r.err # Ok THEN Res(r.err, None, r.ctx)
    ELSE Res(Ok,
             Some([status |-> r.val.v.status, headers |-> r.val.v.headers,
                   cookies |-> r.val.v.cookies, body |-> r.val.v.body]),
             r.ctx)


\* ------------------------------------------------------------------ state

VARIABLES
    disp,      \* disp[i]: where invoke_function of request i stands
    task,      \* task[i]: where the spawn_blocking closure of request i stands
    req,       \* req[i]: the inbound request being handled
    ctx,       \* ctx[i]: the HostContext of invocation i (NoCtx when dropped)
    inst,      \* inst[i]: whether the sandbox Instance (and Store) of i exists
    chan,      \* chan[i]: the oneshot channel carrying the InterruptHandle
    intr,      \* intr[i]: whether the Store of i has been interrupted
    result,    \* result[i]: what the closure returned (None while it runs)
    outcome,   \* outcome[i]: what Endpoint::call returned for the request
    lastCall,  \* the most recent host call: who made it, its arguments, its result
    issued,    \* issued[i]: handle values the table of i has returned so far
    freed,     \* freed[i]: handles removed from the table of i so far
    retired,   \* retired[i]: Cookie handles consumed by cookie_insert/cookie_remove
    srv,       \* the Server: what Server::new was given, and what it has built
    target,    \* target[i]: Endpoint.function of the endpoint handling request i
    wasi,      \* wasi[i]: the environment the WasiCtx of sandbox i was built with
    guest      \* guest[i]: the Response and Cookie values the program in sandbox i holds

vars == <<disp, task, req, ctx, inst, chan, intr, result, outcome,
          lastCall, issued, freed, retired, srv, target, wasi, guest>>

lifecycle == <<disp, task, req, inst, chan, intr, result, outcome>>

\* A value returned to the guest: a number, a string or bytes.
Val(n, s, b) == [n |-> n, s |-> s, b |-> b]
NoVal == Val(0, "", <<>>)

NoCall == [inv |-> 0, op |-> "none", h |-> 0, h2 |-> 0, err |-> Ok, val |-> NoVal]

\* The host calls taking a Response handle (as h), and those taking a Cookie
\* handle (as h, or as h2 beside a Response handle).
ResponseOps ==
    {"response_free", "response_status_get", "response_header_length",
     "response_header_get", "response_header_set", "response_cookie_insert",
     "response_cookie_remove", "response_body_length", "response_body_get",
     "response_body_set"}
CookieOps ==
    {"cookie_free", "cookie_http_only_set", "cookie_secure_set",
     "cookie_max_age_set", "cookie_same_site_set", "cookie_domain_set",
     "cookie_path_set"}
TransferOps == {"response_cookie_insert", "response_cookie_remove"}
NewOps == {"response_new", "cookie_new"}

\* The host calls that only read the table (through inner()).
ReadOps ==
    {"request_" \o part \o kind :
        part \in {"method", "uri", "header", "cookie", "param", "body"},
        kind \in {"_length", "_get"}}
    \cup {"response_status_get", "response_header_length", "response_header_get",
          "response_body_length", "response_body_get"}
HostOps == ReadOps \cup ResponseOps \cup CookieOps \cup NewOps

\* What a host call does to the RefCell of its table, in order: a read takes
\* one shared borrow for one statement; a write takes one mutable borrow
\* (response_body_set holds it to the end of the call); the cookie transfers
\* take a mutable borrow for remove_cookie, let it go at the end of that
\* statement, and take a second one for the Response.
borrows(op) ==
    IF op \in TransferOps THEN <<"borrow_mut", "drop", "borrow_mut", "drop">>
    ELSE IF op \in ReadOps THEN <<"borrow", "drop">>
    ELSE <<"borrow_mut", "drop">>

\* RefCell: borrow_mut panics while any borrow is held, borrow panics while a
\* mutable borrow is held. `held` is the stack of borrows held so far.
RECURSIVE AlreadyBorrowed(_, _)
AlreadyBorrowed(events, held) ==
    IF events = <<>> THEN FALSE
    ELSE LET e == Head(events) IN
         IF e = "drop" THEN AlreadyBorrowed(Tail(events), SubSeq(held, 1, Len(held) - 1))
         ELSE IF e = "borrow_mut" /\ held # <<>> THEN TRUE
         ELSE IF e = "borrow" /\ \E k \in 1..Len(held) : held[k] = "borrow_mut" THEN TRUE
         ELSE AlreadyBorrowed(Tail(events), Append(held, e))

\* A faulty binding, for comparison: every sandbox is linked to the table of
\* invocation 1.
SharedCtx(i) == 1

\* The HostContext the host functions linked into the sandbox of i act on:
\* instantiate hands ctx.clone() of the context it has just created to the linker.
BoundCtx(i) == i

\* The table the sandbox of i is bound to.
Tbl(i) == ctx[BoundCtx(i)]

\* The sandbox of i is executing guest code (the start function or the export)
\* and so may call the host.
InGuest(i) == task[i] \in {"start", "running"} /\ Tbl(i) # NoCtx

\* A guest program that calls the imports directly and holds no Response or
\* Cookie value. A program written against Response, ResponseBuilder, Cookie
\* and CookieBuilder is `safe`: it reaches the imports through them only.
NoGuest ==
    [safe |-> FALSE, responses |-> {}, cookies |-> {}, obtained |-> {},
     released |-> <<>>, panicked |-> FALSE]

\* A faulty insert_cookie and remove_cookie, for comparison: the handle is
\* passed to the host and the Cookie is left to be dropped like any other.
PassCookie(g, cookie) == [g EXCEPT !.released = Append(@, cookie)]

\* std::mem::forget of the value holding `handle`: the value is gone without
\* its Drop having run, and the program has let go of the handle.
forget(g, handle) ==
    [g EXCEPT !.responses = @ \ {handle}, !.cookies = @ \ {handle},
              !.released = Append(@, handle)]

\* ResponseBuilder::insert_cookie and remove_cookie: the handle is read out of
\* the Cookie and the Cookie is forgotten before the host is called.
give_cookie(g, cookie) == forget(g, cookie)

\* Response::into_raw: the handle is read, the Response is forgotten and the
\* handle is what the export returns.
into_raw(g, handle) == forget(g, handle)

\* Drop for Response and Drop for Cookie: the value is gone and its handle is
\* passed to response::free or cookie::free.
drop(g, handle) == forget(g, handle)

\* .unwrap() on the result of an import: an error panics.
unwrap(g, err) == IF err = Ok THEN g ELSE [g EXCEPT !.panicked = TRUE]

\* What the method of the API that makes host call `op` does to the values
\* the program holds: ResponseBuilder::new and CookieBuilder::new wrap the
\* handle they are given, a drop and a transfer let go of one, and every
\* result is unwrapped.
api(g, op, h, h2, err, val) ==
    unwrap(CASE op = "response_new" ->
                  IF err = Ok
                  THEN [g EXCEPT !.responses = @ \cup {val.n}, !.obtained = @ \cup {val.n}]
                  ELSE g
             [] op = "cookie_new" ->
                  IF err = Ok
                  THEN [g EXCEPT !.cookies = @ \cup {val.n}, !.obtained = @ \cup {val.n}]
                  ELSE g
             [] op \in {"response_free", "cookie_free"} -> drop(g, h)
             [] op \in {"response_cookie_insert", "response_cookie_remove"} ->
                  give_cookie(g, h2)
             [] OTHER -> g,
           err)

\* One host call of the sandbox of i: the table becomes r.ctx, the guest gets
\* r.err and val. A call that panics does not return to the guest.
HostCall(i, op, h, h2, r, val) ==
    /\ InGuest(i)
    /\ r.err # Panic
    /\ ~AlreadyBorrowed(borrows(op), <<>>)
    /\ ctx' = [ctx EXCEPT ![BoundCtx(i)] = r.ctx]
    /\ lastCall' = [inv |-> i, op |-> op, h |-> h, h2 |-> h2,
                    err |-> r.err, val |-> val]
    /\ issued' = [issued EXCEPT ![i] =
                    IF op \in {"response_new", "cookie_new"} /\ r.err = Ok
                    THEN @ \cup {val.n} ELSE @]
    /\ freed' = [freed EXCEPT ![i] =
                    @ \cup ((DOMAIN ctx[BoundCtx(i)].handles) \ (DOMAIN r.ctx.handles))
                      \cup (IF op \in {"response_free", "cookie_free"} /\ r.err = Ok
                            THEN {h} ELSE {})]
    /\ retired' = [retired EXCEPT ![i] =
                    IF op \in {"response_cookie_insert", "response_cookie_remove"}
                       /\ r.err = Ok
                    THEN @ \cup {h2} ELSE @]
    /\ guest' = [guest EXCEPT ![i] =
                    IF @.safe THEN api(@, op, h, h2, r.err, val) ELSE @]
    /\ UNCHANGED <<lifecycle, srv, target, wasi>>

\* How deep a GuestError is wrapped in InFunc.
MaxWrap == 1

\* wiggle::GuestError: the faults of an access to guest memory, and InFunc,
\* which wraps the fault of an inner access.
GuestErrorTags ==
    {"InvalidFlagValue", "InvalidEnumValue", "PtrOverflow", "PtrOutOfBounds",
     "PtrNotAligned", "PtrBorrowed", "InvalidUtf8", "TryFromIntError",
     "SliceLengthsDiffer", "BorrowCheckerOutOfHandles"}
Fault(tag) == [tag |-> tag]
InFunc(err) == [tag |-> "InFunc", err |-> err]

RECURSIVE GuestErrors(_)
GuestErrors(depth) ==
    IF depth = 0 THEN {Fault(t) : t \in GuestErrorTags}
    ELSE GuestErrors(depth - 1) \cup {InFunc(e) : e \in GuestErrors(depth - 1)}

\* The faults a host call is given here.
Faults == GuestErrors(MaxWrap)

\* A faulty conversion, for comparison: a wrapped fault is not looked into.
FromOuter(err) ==
    CASE err.tag \in {"PtrOverflow", "PtrOutOfBounds", "PtrBorrowed",
                      "BorrowCheckerOutOfHandles"} -> InvalidPointer
      [] err.tag = "InvalidUtf8" -> InvalidUtf8
      [] err.tag = "TryFromIntError" -> IntegerOverflow
      [] err.tag = "SliceLengthsDiffer" -> InvalidLength
      [] err.tag = "InFunc" -> Ok
      [] OTHER -> InvalidArgument

\* impl From<GuestError> for types::Error
RECURSIVE from(_)
from(err) ==
    CASE err.tag = "InvalidFlagValue" -> InvalidArgument
      [] err.tag = "InvalidEnumValue" -> InvalidArgument
      [] err.tag = "PtrOverflow" -> InvalidPointer
      [] err.tag = "PtrOutOfBounds" -> InvalidPointer
      [] err.tag = "PtrNotAligned" -> InvalidArgument
      [] err.tag = "PtrBorrowed" -> InvalidPointer
      [] err.tag = "InvalidUtf8" -> InvalidUtf8
      [] err.tag = "TryFromIntError" -> IntegerOverflow
      [] err.tag = "InFunc" -> from(err.err)
      [] err.tag = "SliceLengthsDiffer" -> InvalidLength
      [] err.tag = "BorrowCheckerOutOfHandles" -> InvalidPointer

\* The fault of reading a guest slice that lies outside the guest's memory.
PtrFault == Fault("PtrOutOfBounds")

\* A guest buffer of buffer_len bytes receiving `bytes`: copy_from_slice fails
\* with SliceLengthsDiffer unless the lengths are equal.
CopyOut(bytes, buffer_len) ==
    IF buffer_len = Len(bytes) THEN Ok ELSE from(Fault("SliceLengthsDiffer"))

\* Vec::resize(len, 0)
Resize(body, len) == [k \in 1..len |-> IF k <= Len(body) THEN body[k] ELSE 0]

\* ---------------------------------------------------- the host call surface

\* The host calls that read a guest string before anything else.
FaultOps == {"request_header_length", "cookie_new"}

\* A host call whose first access to guest memory (name.as_str()?) faults
\* with err: `?` converts the fault and returns it; the table is not touched.
guest_fault(i, op, err) ==
    /\ InGuest(i)
    /\ HostCall(i, op, 0, 0, Res(from(err), 0, Tbl(i)), NoVal)

\* A faulty read, for comparison: reading the request takes its body out.
TakeBody(c) == [c EXCEPT !.request.body = <<>>]

\* HostContext::inner: a shared borrow (Ref) of the table; nothing is written.
inner(c) == c

\* The parts of the Request a guest asks for, and those asked for by name.
RequestParts == {"method", "uri", "header", "cookie", "param", "body"}
NamedParts == {"header", "cookie", "param"}

\* request.0.method() / url() / header(name) / cookie(name) / param(name) and
\* request.1 (the body): the value, None when there is none under the name.
RequestPart(c, part, name) ==
    CASE part = "method" -> Some(c.request.method)
      [] part = "uri" -> Some(c.request.uri)
      [] part = "body" -> Some(c.request.body)
      [] part = "header" ->
            IF name \in DOMAIN c.request.headers THEN Some(c.request.headers[name]) ELSE None
      [] part = "cookie" ->
            IF name \in DOMAIN c.request.cookies THEN Some(c.request.cookies[name]) ELSE None
      [] OTHER ->
            IF name \in DOMAIN c.request.params THEN Some(c.request.params[name]) ELSE None

\* request_method_length, request_uri_length, request_header_length,
\* request_cookie_length, request_param_length, request_body_length: the name
\* is read first; a missing value has length 0.
request_length(i, part, name) ==
    /\ InGuest(i)
    /\ LET c == Tbl(i)
           e == IF part \in NamedParts /\ ~StrOk(name) THEN InvalidUtf8 ELSE Ok
           v == IF e = Ok THEN RequestPart(c, part, name) ELSE None
       IN HostCall(i, "request_" \o part \o "_length", 0, 0, Res(e, 0, inner(c)),
                   Val(IF v.some THEN Len(v.v) ELSE 0, "", <<>>))

\* request_method_get, request_uri_get, request_header_get, request_cookie_get,
\* request_param_get, request_body_get: the name is read first; a value that
\* exists is copied with copy_from_slice, a missing one copies nothing.
request_get(i, part, name, buffer_len) ==
    /\ InGuest(i)
    /\ LET c == Tbl(i)
           e0 == IF part \in NamedParts /\ ~StrOk(name) THEN InvalidUtf8 ELSE Ok
           v == IF e0 = Ok THEN RequestPart(c, part, name) ELSE None
           e == IF e0 = Ok /\ v.some THEN CopyOut(v.v, buffer_len) ELSE e0
       IN HostCall(i, "request_" \o part \o "_get", 0, 0, Res(e, 0, inner(c)),
                   IF e = Ok /\ v.some
                   THEN (IF part = "body" THEN Val(buffer_len, "", v.v)
                         ELSE Val(buffer_len, v.v, <<>>))
                   ELSE Val(buffer_len, "", <<>>))

response_new(i, status) ==
    /\ InGuest(i)
    /\ LET r == insert_response(Tbl(i), status) IN
       HostCall(i, "response_new", 0, status, r, Val(r.val, "", <<>>))

response_free(i, response) ==
    /\ InGuest(i)
    /\ LET r == remove_response(Tbl(i), response) IN
       HostCall(i, "response_free", response, 0, r, NoVal)

response_status_get(i, response) ==
    /\ InGuest(i)
    /\ LET g == get_response(Tbl(i), response) IN
       IF ~g.some
       THEN HostCall(i, "response_status_get", response, 0,
                     Res(InvalidHandle, 0, Tbl(i)), NoVal)
       ELSE HostCall(i, "response_status_get", response, 0,
                     Res(Ok, 0, Tbl(i)), Val(g.v.status, "", <<>>))

response_header_length(i, response, name) ==
    /\ InGuest(i)
    /\ LET g == get_response(Tbl(i), response)
           e == IF ~g.some THEN InvalidHandle
                ELSE IF ~StrOk(name) THEN InvalidUtf8 ELSE Ok
           n == IF e = Ok /\ name \in DOMAIN g.v.headers
                THEN Len(g.v.headers[name]) ELSE 0
       IN HostCall(i, "response_header_length", response, 0,
                   Res(e, 0, Tbl(i)), Val(n, "", <<>>))

response_header_get(i, response, name, buffer_len) ==
    /\ InGuest(i)
    /\ LET g == get_response(Tbl(i), response)
           has == g.some /\ StrOk(name) /\ name \in DOMAIN g.v.headers
           e == IF ~g.some THEN InvalidHandle
                ELSE IF ~StrOk(name) THEN InvalidUtf8
                ELSE IF has THEN CopyOut(g.v.headers[name], buffer_len) ELSE Ok
       IN HostCall(i, "response_header_get", response, 0, Res(e, 0, Tbl(i)),
                   IF has /\ e = Ok THEN Val(buffer_len, g.v.headers[name], <<>>)
                   ELSE Val(buffer_len, "", <<>>))

response_header_set(i, response, name, value) ==
    /\ InGuest(i)
    /\ LET c == Tbl(i)
           g == get_response(c, response)
           e == IF ~g.some THEN InvalidHandle
                ELSE IF ~StrOk(name) \/ ~StrOk(value) THEN InvalidUtf8 ELSE Ok
           c2 == IF e = Ok
                 THEN [c EXCEPT !.handles[response].headers = MapPut(@, name, value)]
                 ELSE c
       IN HostCall(i, "response_header_set", response, 0, Res(e, 0, c2), NoVal)

\* A faulty transfer, for comparison: the Cookie is copied into the Response
\* and its table entry stays.
TransferKeepsCookie(c, response, cookie, event) ==
    LET k == get_cookie_mut(c, cookie) IN
    IF ~k.some THEN Res(InvalidHandle, 0, c)
    ELSE IF ~get_response(c, response).some THEN Res(InvalidHandle, 0, c)
         ELSE Res(Ok, 0,
                  [c EXCEPT !.handles[response].cookies =
                      Append(@, [event |-> event, cookie |-> k.v])])

\* The Cookie is removed from the table first; the Response is looked up after.
CookieTransfer(c, response, cookie, event) ==
    LET rm == remove_cookie(c, cookie) IN
    IF rm.err # Ok THEN Res(rm.err, 0, rm.ctx)
    ELSE LET g == get_response(rm.ctx, response) IN
         IF ~g.some THEN Res(InvalidHandle, 0, rm.ctx)
         ELSE Res(Ok, 0,
                  [rm.ctx EXCEPT !.handles[response].cookies =
                      Append(@, [event |-> event, cookie |-> rm.val.v])])

response_cookie_insert(i, response, cookie) ==
    /\ InGuest(i)
    /\ HostCall(i, "response_cookie_insert", response, cookie,
                CookieTransfer(Tbl(i), response, cookie, "Added"), NoVal)

response_cookie_remove(i, response, cookie) ==
    /\ InGuest(i)
    /\ HostCall(i, "response_cookie_remove", response, cookie,
                CookieTransfer(Tbl(i), response, cookie, "Removed"), NoVal)

response_body_length(i, response) ==
    /\ InGuest(i)
    /\ LET g == get_response(Tbl(i), response) IN
       IF ~g.some
       THEN HostCall(i, "response_body_length", response, 0,
                     Res(InvalidHandle, 0, Tbl(i)), NoVal)
       ELSE HostCall(i, "response_body_length", response, 0,
                     Res(Ok, 0, Tbl(i)), Val(Len(g.v.body), "", <<>>))

response_body_get(i, response, buffer_len) ==
    /\ InGuest(i)
    /\ LET g == get_response(Tbl(i), response)
           e == IF ~g.some THEN InvalidHandle ELSE CopyOut(g.v.body, buffer_len)
       IN HostCall(i, "response_body_get", response, 0, Res(e, 0, Tbl(i)),
                   IF e = Ok THEN Val(buffer_len, "", g.v.body)
                   ELSE Val(buffer_len, "", <<>>))

\* The stored body is resized before the guest slice is read.
response_body_set(i, response, bytes) ==
    /\ InGuest(i)
    /\ LET c == Tbl(i)
           g == get_response(c, response)
       IN IF ~g.some
          THEN HostCall(i, "response_body_set", response, 0,
                        Res(InvalidHandle, 0, c), NoVal)
          ELSE LET resized == Resize(g.v.body, bytes.len) IN
               IF ~bytes.ok
               THEN HostCall(i, "response_body_set", response, 0,
                             Res(from(PtrFault), 0,
                                 [c EXCEPT !.handles[response].body = resized]), NoVal)
               ELSE HostCall(i, "response_body_set", response, 0,
                             Res(Ok, 0, [c EXCEPT !.handles[response].body = bytes.bytes]),
                             NoVal)

cookie_new(i, name, value) ==
    /\ InGuest(i)
    /\ LET c == Tbl(i)
           r == IF ~StrOk(name) \/ ~StrOk(value) THEN Res(InvalidUtf8, 0, c)
                ELSE insert_cookie(c, name, value)
       IN HostCall(i, "cookie_new", 0, 0, r, Val(r.val, "", <<>>))

cookie_free(i, cookie) ==
    /\ InGuest(i)
    /\ LET r == remove_cookie(Tbl(i), cookie) IN
       HostCall(i, "cookie_free", cookie, 0, r, NoVal)

\* cookie.*_set: get_cookie_mut, then the attribute is written.
CookieSet(i, op, cookie, e0, field, v) ==
    /\ InGuest(i)
    /\ LET c == Tbl(i)
           g == get_cookie_mut(c, cookie)
           e == IF ~g.some THEN InvalidHandle ELSE e0
           c2 == IF e = Ok
                 THEN [c EXCEPT !.handles[cookie] = [@ EXCEPT ![field] = v]]
                 ELSE c
       IN HostCall(i, op, cookie, 0, Res(e, 0, c2), NoVal)

cookie_http_only_set(i, cookie) ==
    CookieSet(i, "cookie_http_only_set", cookie, Ok, "http_only", TRUE)

cookie_secure_set(i, cookie) ==
    CookieSet(i, "cookie_secure_set", cookie, Ok, "secure", TRUE)

cookie_max_age_set(i, cookie, max_age) ==
    CookieSet(i, "cookie_max_age_set", cookie, Ok, "max_age", max_age)

cookie_same_site_set(i, cookie, same_site) ==
    CookieSet(i, "cookie_same_site_set", cookie, Ok, "same_site", same_site)

cookie_domain_set(i, cookie, domain) ==
    CookieSet(i, "cookie_domain_set", cookie,
              IF StrOk(domain) THEN Ok ELSE InvalidUtf8, "domain", domain)

cookie_path_set(i, cookie, path) ==
    CookieSet(i, "cookie_path_set", cookie,
              IF StrOk(path) THEN Ok ELSE InvalidUtf8, "path", path)


\* ----------------------------------------------------------- the dispatcher

\* FUNCTION_TIMEOUT_SECS
FUNCTION_TIMEOUT_SECS == 300

\* The body of a tide::Response with no body set.
NoResp == [status |-> 0, headers |-> EmptyMap, cookies |-> <<>>, body |-> <<>>]

\* Result<tide::Response>: what the closure, or invoke_function, returns.
OkResult(resp) == [ok |-> TRUE, resp |-> resp, msg |-> ""]
ErrResult(msg) == [ok |-> FALSE, resp |-> NoResp, msg |-> msg]

TimedOutMsg == "function invocation timed out"
CanceledMsg == "oneshot canceled"

\* A faulty Endpoint::call, for comparison: a missing export is reported as
\* 404 Not Found.
CallByKind(res, via) ==
    IF res.ok
    THEN [ok |-> TRUE, status |-> res.resp.status, resp |-> res.resp,
          msg |-> "", via |-> via]
    ELSE [ok |-> FALSE,
          status |-> IF res.msg = "function was not found." THEN 404 ELSE 500,
          resp |-> [status |-> 0, headers |-> EmptyMap, cookies |-> <<>>, body |-> <<>>],
          msg |-> res.msg, via |-> via]

\* Endpoint::call: an Err becomes a tide::Error with status 500 and the error's
\* text; `via` records the select! branch that produced the result.
call(res, via) ==
    IF res.ok
    THEN [ok |-> TRUE, status |-> res.resp.status, resp |-> res.resp,
          msg |-> "", via |-> via]
    ELSE [ok |-> FALSE, status |-> 500, resp |-> NoResp, msg |-> res.msg,
          via |-> via]

\* What the transport writes to the client for the outcome `o`: tide turns the
\* Err of an endpoint into a Response with the error's status and no body; the
\* error itself stays attached to the Response for middleware (Response::error).
ClientResponse(o) ==
    IF o.ok THEN [status |-> o.status, body |-> o.resp.body,
                  headers |-> o.resp.headers, cookies |-> o.resp.cookies]
    ELSE [status |-> o.status, body |-> <<>>, headers |-> EmptyMap, cookies |-> <<>>]

\* A faulty teardown, for comparison: the table outlives the closure.
KeepCtx(c) == c

\* The closure returns: host_ctx, the Instance and the Store go out of scope.
DropCtx(c) == NoCtx

\* The closure of i ends with `res`; tx is dropped unsent unless it was sent.
\* `ret` is the value the export returned (None when it did not return).
Finish(i, res, ret) ==
    /\ lastCall' = IF ret.some
                   THEN [NoCall EXCEPT !.inv = i, !.op = "export_return", !.h = ret.v,
                                       !.err = IF res.ok THEN Ok ELSE InvalidHandle]
                   ELSE IF lastCall.inv = i THEN NoCall ELSE lastCall
    /\ task' = [task EXCEPT ![i] = "finished"]
    /\ result' = [result EXCEPT ![i] = Some(res)]
    /\ ctx' = [ctx EXCEPT ![i] = DropCtx(@)]
    /\ inst' = [inst EXCEPT ![i] = FALSE]
    /\ wasi' = [wasi EXCEPT ![i] = EmptyMap]
    /\ guest' = [guest EXCEPT ![i] =
                    IF @.safe /\ ret.some THEN into_raw(@, ret.v) ELSE @]
    /\ chan' = [chan EXCEPT ![i] = IF @ = "open" THEN "canceled" ELSE @]
    /\ issued' = [issued EXCEPT ![i] = {}]
    /\ freed' = [freed EXCEPT ![i] = {}]
    /\ retired' = [retired EXCEPT ![i] = {}]

\* A request is routed to the endpoint: invoke_function starts reading its
\* body. A slot is free once its previous request was answered and its closure
\* has returned.
accept(i, r) ==
    /\ disp[i] \in {"idle", "done"}
    /\ task[i] \in {"none", "finished"}
    /\ disp' = [disp EXCEPT ![i] = "body"]
    /\ task' = [task EXCEPT ![i] = "none"]
    /\ req' = [req EXCEPT ![i] = r]
    /\ chan' = [chan EXCEPT ![i] = "none"]
    /\ intr' = [intr EXCEPT ![i] = FALSE]
    /\ result' = [result EXCEPT ![i] = None]
    /\ outcome' = [outcome EXCEPT ![i] = None]
    /\ UNCHANGED <<ctx, inst, wasi, guest, lastCall, issued, freed, retired>>
    /\ UNCHANGED <<srv, target>>

\* invoke_function up to select!: the body is read (or the read fails and the
\* error is returned), the channel and the timer are created, the closure is
\* spawned.
invoke_function(i, body_ok) ==
    /\ disp[i] = "body"
    /\ IF body_ok
       THEN /\ disp' = [disp EXCEPT ![i] = "select"]
            /\ task' = [task EXCEPT ![i] = "spawned"]
            /\ chan' = [chan EXCEPT ![i] = "open"]
            /\ UNCHANGED <<req, outcome>>
       ELSE /\ disp' = [disp EXCEPT ![i] = "done"]
            /\ req' = [req EXCEPT ![i] = NoReq]
            /\ outcome' = [outcome EXCEPT ![i] =
                              Some(call(ErrResult("body"), "body"))]
            /\ UNCHANGED <<task, chan>>
    /\ UNCHANGED <<ctx, inst, wasi, guest, intr, result, lastCall, issued, freed, retired>>
    /\ UNCHANGED <<srv, target>>

\* A faulty sandbox set-up, for comparison: the whole environment of the
\* provider is passed on.
InheritEnv(s) == s.environment

\* builder.envs(&self.env): the variables the WASI context is given.
envs(s) == s.env

\* StateInner::instantiate up to the call of _start: the HostContext is created,
\* the linker instantiates the module (which may fail).
instantiate(i, how) ==
    /\ task[i] = "spawned"
    /\ IF how = "fail"
       THEN Finish(i, ErrResult("instantiate"), None)
       ELSE /\ ctx' = [ctx EXCEPT ![i] = NewContext(req[i])]
            /\ inst' = [inst EXCEPT ![i] = TRUE]
            /\ wasi' = [wasi EXCEPT ![i] = envs(srv)]
            /\ guest' = [guest EXCEPT ![i] = NoGuest]
            /\ task' = [task EXCEPT ![i] = IF how = "start" THEN "start" ELSE "send"]
            /\ issued' = [issued EXCEPT ![i] = {}]
            /\ freed' = [freed EXCEPT ![i] = {}]
            /\ retired' = [retired EXCEPT ![i] = {}]
            /\ UNCHANGED <<result, chan, lastCall>>
    /\ req' = [req EXCEPT ![i] = NoReq]
    /\ UNCHANGED <<disp, intr, outcome>>
    /\ UNCHANGED <<srv, target>>

\* _start returns: instantiate returns Ok.
start_return(i) ==
    /\ task[i] = "start"
    /\ task' = [task EXCEPT ![i] = "send"]
    /\ UNCHANGED <<disp, req, ctx, inst, wasi, guest, chan, intr, result, outcome,
                   lastCall, issued, freed, retired>>
    /\ UNCHANGED <<srv, target>>

\* _start traps: instantiate returns Err and the closure ends.
start_trap(i) ==
    /\ task[i] = "start"
    /\ Finish(i, ErrResult("the module start function trapped"), None)
    /\ UNCHANGED <<disp, req, intr, outcome>>
    /\ UNCHANGED <<srv, target>>

\* A faulty hand-over, for comparison: the result of tx.send is ignored and
\* the closure goes on to the export.
SendUnchecked(i) ==
    /\ task[i] = "send"
    /\ chan' = [chan EXCEPT ![i] =
                  IF disp[i] \in {"select", "await_rx"} THEN "sent" ELSE @]
    /\ task' = [task EXCEPT ![i] = "lookup"]
    /\ UNCHANGED <<ctx, inst, wasi, guest, result, lastCall, issued, freed, retired>>
    /\ UNCHANGED <<disp, req, intr, outcome>>
    /\ UNCHANGED <<srv, target>>

\* tx.send(interrupt): fails when the receiver is gone.
send_interrupt(i) ==
    /\ task[i] = "send"
    /\ IF disp[i] \in {"select", "await_rx"}
       THEN /\ chan' = [chan EXCEPT ![i] = "sent"]
            /\ task' = [task EXCEPT ![i] = "lookup"]
            /\ UNCHANGED <<ctx, inst, wasi, guest, result, lastCall, issued, freed, retired>>
       ELSE Finish(i, ErrResult("failed to send interrupt handle."), None)
    /\ UNCHANGED <<disp, req, intr, outcome>>
    /\ UNCHANGED <<srv, target>>

\* instance.get_export(&function) and the signature check.
lookup_export(i, export) ==
    /\ task[i] = "lookup"
    /\ CASE export = "func" ->
              /\ task' = [task EXCEPT ![i] = "running"]
              /\ UNCHANGED <<ctx, inst, wasi, guest, result, chan, lastCall, issued, freed, retired>>
         [] export = "missing" -> Finish(i, ErrResult("function was not found."), None)
         [] OTHER -> Finish(i, ErrResult("function has an incorrect signature."), None)
    /\ UNCHANGED <<disp, req, intr, outcome>>
    /\ UNCHANGED <<srv, target>>

\* func.call returns the i32 `ret`: the closure takes the Response out of the
\* table and ends.
export_return(i, ret) ==
    /\ task[i] = "running"
    /\ LET t == take_response(ctx[i], ret) IN
       Finish(i, IF t.val.some THEN OkResult(t.val.v)
                 ELSE ErrResult("function did not return a HTTP response"),
                 Some(ret))
    /\ UNCHANGED <<disp, req, intr, outcome>>
    /\ UNCHANGED <<srv, target>>

\* func.call traps (a guest trap, or the interrupt taking effect).
export_trap(i) ==
    /\ task[i] = "running"
    /\ Finish(i, ErrResult("function call trapped"), None)
    /\ UNCHANGED <<disp, req, intr, outcome>>
    /\ UNCHANGED <<srv, target>>

\* select!: the invocation branch, once the closure has returned.
select_invocation(i) ==
    /\ disp[i] = "select"
    /\ result[i].some
    /\ disp' = [disp EXCEPT ![i] = "done"]
    /\ outcome' = [outcome EXCEPT ![i] = Some(call(result[i].v, "invocation"))]
    /\ result' = [result EXCEPT ![i] = None]
    /\ UNCHANGED <<task, req, ctx, inst, wasi, guest, chan, intr,
                   lastCall, issued, freed, retired>>
    /\ UNCHANGED <<srv, target>>

\* select!: the timeout branch; the Delay runs since before the closure was spawned.
select_timeout(i) ==
    /\ disp[i] = "select"
    /\ disp' = [disp EXCEPT ![i] = "await_rx"]
    /\ UNCHANGED <<task, req, ctx, inst, wasi, guest, chan, intr, result, outcome,
                   lastCall, issued, freed, retired>>
    /\ UNCHANGED <<srv, target>>

\* A faulty abandon, for comparison: the Store of every invocation is
\* interrupted.
InterruptEvery(i) ==
    /\ disp[i] = "await_rx"
    /\ chan[i] = "sent"
    /\ intr' = [j \in Invs |-> TRUE]
    /\ disp' = [disp EXCEPT ![i] = "done"]
    /\ outcome' = [outcome EXCEPT ![i] = Some(call(ErrResult(TimedOutMsg), "timeout"))]
    /\ UNCHANGED <<task, req, ctx, inst, wasi, guest, chan, result,
                   lastCall, issued, freed, retired>>
    /\ UNCHANGED <<srv, target>>

\* rx.await yields the handle: interrupt() and the timeout error.
rx_received(i) ==
    /\ disp[i] = "await_rx"
    /\ chan[i] = "sent"
    /\ intr' = [intr EXCEPT ![i] = TRUE]
    /\ disp' = [disp EXCEPT ![i] = "done"]
    /\ outcome' = [outcome EXCEPT ![i] = Some(call(ErrResult(TimedOutMsg), "timeout"))]
    /\ UNCHANGED <<task, req, ctx, inst, wasi, guest, chan, result,
                   lastCall, issued, freed, retired>>
    /\ UNCHANGED <<srv, target>>

\* The future of invoke_function is dropped while it waits in select! or in
\* rx.await (its task is cancelled): rx and the timer go with it, the request
\* gets no outcome from this endpoint, and the closure runs on.
drop_request(i) ==
    /\ disp[i] \in {"select", "await_rx"}
    /\ disp' = [disp EXCEPT ![i] = "gone"]
    /\ UNCHANGED <<task, req, ctx, inst, wasi, guest, chan, intr, result, outcome,
                   lastCall, issued, freed, retired>>
    /\ UNCHANGED <<srv, target>>

\* rx.await? yields Canceled: the sender was dropped without sending.
rx_canceled(i) ==
    /\ disp[i] = "await_rx"
    /\ chan[i] = "canceled"
    /\ disp' = [disp EXCEPT ![i] = "done"]
    /\ outcome' = [outcome EXCEPT ![i] = Some(call(ErrResult(CanceledMsg), "timeout"))]
    /\ UNCHANGED <<task, req, ctx, inst, wasi, guest, chan, intr, result,
                   lastCall, issued, freed, retired>>
    /\ UNCHANGED <<srv, target>>

\* ------------------------------------------------------------- the metadata

\* metadata::Method, by the text as_ref gives (and serde reads).
Methods ==
    {"GET", "HEAD", "POST", "PUT", "DELETE", "CONNECT", "OPTIONS", "TRACE", "PATCH"}
AllMethods ==
    <<"GET", "HEAD", "POST", "PUT", "DELETE", "CONNECT", "OPTIONS", "TRACE", "PATCH">>

\* metadata::Function with its FunctionTrigger::Http { path, methods }.
Function(name, path, methods) == [name |-> name, path |-> path, methods |-> methods]

\* The descriptors that occur in the modules considered, and the variables.
FnCatalog ==
    <<Function("hello", "/hello/:name", <<"GET">>),
      Function("any", "/hello/:name", <<>>),
      Function("ada", "/hello/Ada", <<"GET", "POST">>),
      Function("hello", "/bye", <<"POST">>),
      Function("all", "/bye", AllMethods)>>
VarCatalog == <<"A", "hello">>

\* JSON text, byte by byte: '[' ',' ']' are themselves; the text of one
\* object (a Function) or of one string (a variable name) is held as one byte,
\* FnBase + k for FnCatalog[k] and VarBase + k for VarCatalog[k].
LBracket == 91
Comma == 44
RBracket == 93
FnBase == 128
VarBase == 160

\* The items a section of `kind` holds ("fn": Function, "var": String).
Catalog(kind) == IF kind = "fn" THEN FnCatalog ELSE VarCatalog
Base(kind) == IF kind = "fn" THEN FnBase ELSE VarBase
ItemBytes(kind) == {Base(kind) + k : k \in 1..Len(Catalog(kind))}

\* serde_json::to_string(&[..]) of a list of items.
to_string(kind, items) ==
    <<LBracket>>
    \o [k \in 1..(IF items = <<>> THEN 0 ELSE 2 * Len(items) - 1) |->
           IF k % 2 = 0 THEN Comma
           ELSE Base(kind)
                + (CHOOSE c \in 1..Len(Catalog(kind)) :
                      Catalog(kind)[c] = items[(k + 1) \div 2])]
    \o <<RBracket>>

\* serde_json::from_slice::<Vec<T>>: the whole slice must be one array of T.
from_slice(kind, bytes) ==
    IF Len(bytes) < 2 \/ bytes[1] # LBracket \/ bytes[Len(bytes)] # RBracket
    THEN None
    ELSE LET items == SubSeq(bytes, 2, Len(bytes) - 1) IN
         IF items = <<>> THEN Some(<<>>)
         ELSE IF Len(items) % 2 = 0 THEN None
         ELSE IF \A k \in 1..Len(items) :
                    IF k % 2 = 1 THEN items[k] \in ItemBytes(kind)
                    ELSE items[k] = Comma
              THEN Some([k \in 1..((Len(items) + 1) \div 2) |->
                            Catalog(kind)[items[2 * k - 1] - Base(kind)]])
              ELSE None

\* anyhow::Result of the metadata crate.
Okay(v) == [ok |-> TRUE, v |-> v, msg |-> "", detail |-> ""]
Fail(msg, detail) == [ok |-> FALSE, v |-> <<>>, msg |-> msg, detail |-> detail]

NotEnoughData == "not enough data in the section"
JsonError == "serde_json error"

\* A faulty prefix, for comparison: the length most significant byte first.
BigEndianLen(len) ==
    <<(len \div 16777216) % 256, (len \div 65536) % 256,
      (len \div 256) % 256, len % 256>>

\* emit_descriptor: the four bytes put before the descriptor, `len as u8`,
\* `(len >> 8) as u8`, `(len >> 16) as u8`, `(len >> 24) as u8`.
descriptor_len_bytes(len) ==
    <<len % 256, (len \div 256) % 256,
      (len \div 65536) % 256, (len \div 16777216) % 256>>

\* emit_descriptor: the bytes of the static placed in the section.
emit_descriptor(descriptor) == descriptor_len_bytes(Len(descriptor)) \o descriptor

\* read_data_len: None below four bytes, else the little-endian u32.
read_data_len(data) ==
    IF Len(data) < 4 THEN None
    ELSE Some(data[1] + data[2] * 256 + data[3] * 65536 + data[4] * 16777216)

\* A faulty reader, for comparison: a record that runs past the end of the
\* section is dropped and what was read before it is kept.
RECURSIVE ReadLenient(_, _, _, _)
ReadLenient(kind, data, offset, items) ==
    IF offset >= Len(data) THEN Okay(items)
    ELSE LET len == read_data_len(SubSeq(data, offset + 1, Len(data))) IN
         IF ~len.some THEN Okay(items)
         ELSE IF offset + 4 + len.v > Len(data) THEN Okay(items)
              ELSE LET parsed == from_slice(kind, SubSeq(data, offset + 5, offset + 4 + len.v)) IN
                   IF ~parsed.some THEN Fail(JsonError, "")
                   ELSE ReadLenient(kind, data, offset + 4 + len.v, items \o parsed.v)

\* read_section_data: the loop over the records of one section, from `offset`.
RECURSIVE read_section_data(_, _, _, _)
read_section_data(kind, data, offset, items) ==
    IF offset >= Len(data) THEN Okay(items)
    ELSE LET len == read_data_len(SubSeq(data, offset + 1, Len(data))) IN
         IF ~len.some THEN Fail(NotEnoughData, "")
         ELSE LET begin == offset + 4
                  end == begin + len.v
              IN IF end > Len(data) THEN Fail(NotEnoughData, "")
                 ELSE LET parsed == from_slice(kind, SubSeq(data, begin + 1, end)) IN
                      IF ~parsed.some THEN Fail(JsonError, "")
                      ELSE read_section_data(kind, data, end, items \o parsed.v)

\* A faulty check, for comparison: no name counts as repeated.
NoDuplicate(names) == [some |-> FALSE]

\* The first entry of `names` that repeats an earlier one (HashSet::insert
\* returning false), if any.
FirstDuplicate(names) ==
    LET dups == {k \in 1..Len(names) : \E j \in 1..(k - 1) : names[j] = names[k]} IN
    IF dups = {} THEN None
    ELSE Some(names[CHOOSE k \in dups : \A d \in dups : k <= d])

\* A faulty loop, for comparison: every payload that is not `__vars` is read
\* as function descriptors.
RECURSIVE ReadEveryPayload(_, _, _, _)
ReadEveryPayload(sections, k, functions, variables) ==
    IF k > Len(sections) THEN Okay([functions |-> functions, vars |-> variables])
    ELSE IF sections[k].name = "__vars"
    THEN LET r == read_section_data("var", sections[k].data, 0, variables) IN
         IF ~r.ok THEN Fail("WebAssembly module has an invalid '__vars' section", r.msg)
         ELSE ReadEveryPayload(sections, k + 1, functions, r.v)
    ELSE LET r == read_section_data("fn", sections[k].data, 0, functions) IN
         IF ~r.ok THEN Fail("WebAssembly module has an invalid '__functions' section", r.msg)
         ELSE ReadEveryPayload(sections, k + 1, r.v, variables)

\* from_module_bytes: the loop over the sections of the module.
RECURSIVE read_sections(_, _, _, _)
read_sections(sections, k, functions, variables) ==
    IF k > Len(sections) THEN Okay([functions |-> functions, vars |-> variables])
    ELSE IF sections[k].name = "__functions"
    THEN LET r == read_section_data("fn", sections[k].data, 0, functions) IN
         IF ~r.ok THEN Fail("WebAssembly module has an invalid '__functions' section", r.msg)
         ELSE read_sections(sections, k + 1, r.v, variables)
    ELSE IF sections[k].name = "__vars"
    THEN LET r == read_section_data("var", sections[k].data, 0, variables) IN
         IF ~r.ok THEN Fail("WebAssembly module has an invalid '__vars' section", r.msg)
         ELSE read_sections(sections, k + 1, functions, r.v)
    ELSE read_sections(sections, k + 1, functions, variables)

\* Metadata::from_module_bytes.
from_module_bytes(module) ==
    IF ~module.parses THEN Fail("the module is not a valid WebAssembly module", "")
    ELSE LET r == read_sections(module.sections, 1, <<>>, <<>>) IN
         IF ~r.ok THEN r
         ELSE LET df == FirstDuplicate([k \in 1..Len(r.v.functions) |-> r.v.functions[k].name])
                  dv == FirstDuplicate(r.v.vars)
              IN IF df.some
                 THEN Fail("WebAssembly module has a duplicate function", df.v)
                 ELSE IF dv.some
                 THEN Fail("WebAssembly module has a duplicate variable", dv.v)
                 ELSE r

\* ---------------------------------------------------------------- the Server

\* tide's Router: one route table per method (Route::method) and one for all
\* methods (Route::all); a table maps a path pattern to the endpoint's function.
EmptyRouter == [method_map |-> EmptyMap, all_method_router |-> EmptyMap]

\* A module with no custom sections.
NoModule == [parses |-> TRUE, compiles |-> TRUE, sections |-> <<>>]

\* The Server at the entry of Server::new(addr, module, environment, ..).
\* `written` and `damaged` record how the sections of the module came about:
\* the arrays the macros emitted into each, one per record, and whether its
\* bytes were cut or overwritten afterwards; `prefix` is the length prefix
\* emit_descriptor last computed for a descriptor of `len` bytes.
ServerOf(module, environment, bindable) ==
    [phase |-> "new", module |-> module, environment |-> environment,
     bindable |-> bindable, loaded |-> None, functions |-> <<>>, vars |-> <<>>,
     env |-> EmptyMap, asked |-> <<>>, router |-> EmptyRouter,
     listening |-> FALSE, error |-> "", attribute |-> None,
     written |-> [fn |-> <<>>, var |-> <<>>],
     damaged |-> [fn |-> FALSE, var |-> FALSE],
     prefix |-> [len |-> 0, bytes |-> <<0, 0, 0, 0>>]]

\* A Server that Server::new has returned: the listener is bound and run is
\* spawned.
Serving(s) == [s EXCEPT !.phase = "serving", !.listening = TRUE]

\* Everything but the Server.
requests == <<disp, task, req, ctx, inst, chan, intr, result, outcome,
              lastCall, issued, freed, retired, target, wasi, guest>>

\* A faulty failure path, for comparison: the error is noted and Server::new
\* goes on to register the routes.
Proceed(s, msg) == [s EXCEPT !.phase = "routes", !.error = msg]

\* Server::new fails with `msg`: nothing it has built survives.
Abort(s, msg) == [s EXCEPT !.phase = "failed", !.error = msg]

\* Server::new: Metadata::from_module_bytes(&module)? and the check that the
\* module declares a function.
new_metadata ==
    /\ srv.phase = "new"
    /\ LET r == from_module_bytes(srv.module) IN
       srv' = IF ~r.ok THEN Abort([srv EXCEPT !.loaded = Some(r)], r.msg)
              ELSE IF r.v.functions = <<>>
              THEN Abort([srv EXCEPT !.loaded = Some(r)],
                         "module contains no Wasmtime functions")
              ELSE [srv EXCEPT !.phase = "vars", !.loaded = Some(r),
                               !.functions = r.v.functions, !.vars = r.v.vars]
    /\ UNCHANGED requests

\* Server::new: one turn of `for name in metadata.vars`, environment.var(&name)?.
new_var ==
    /\ srv.phase = "vars"
    /\ Len(srv.asked) < Len(srv.vars)
    /\ LET name == srv.vars[Len(srv.asked) + 1] IN
       srv' = IF name \in DOMAIN srv.environment
              THEN [srv EXCEPT !.asked = Append(@, name),
                               !.env = MapPut(@, name, srv.environment[name])]
              ELSE Abort([srv EXCEPT !.asked = Append(@, name)],
                         "environment variable not found")
    /\ UNCHANGED requests

\* Server::new: Engine::new and Module::new(&engine, module)?.
new_module ==
    /\ srv.phase = "vars"
    /\ Len(srv.asked) = Len(srv.vars)
    /\ srv' = IF srv.module.compiles THEN [srv EXCEPT !.phase = "routes"]
              ELSE Abort(srv, "Module::new failed")
    /\ UNCHANGED requests

\* A faulty conversion, for comparison: only GET is known.
GetOnly(text) == IF text = "GET" THEN Some(text) ELSE None

\* http_types::Method::try_from(method.as_ref()): the methods http_types knows.
HttpMethod(text) ==
    IF text \in {"GET", "HEAD", "POST", "PUT", "DELETE", "CONNECT", "OPTIONS",
                 "TRACE", "PATCH"}
    THEN Some(text) ELSE None

\* Route::all: the endpoint goes into the table for all methods; a pattern
\* added again gets the new endpoint.
route_all(router, path, function) ==
    [router EXCEPT !.all_method_router = MapPut(@, path, function)]

\* Route::method: the endpoint goes into the table of that method.
route_method(router, path, method, function) ==
    [router EXCEPT !.method_map =
        MapPut(@, method,
               MapPut(IF method \in DOMAIN @ THEN @[method] ELSE EmptyMap,
                      path, function))]

\* `for method in methods`: a method http_types does not parse is skipped (.ok()).
RECURSIVE add_methods(_, _, _, _)
add_methods(router, function, methods, k) ==
    IF k > Len(methods) THEN router
    ELSE LET m == HttpMethod(methods[k]) IN
         add_methods(IF m.some THEN route_method(router, function.path, m.v, function.name)
                     ELSE router,
                     function, methods, k + 1)

\* `for function in metadata.functions`: the routes in the order declared.
RECURSIVE add_routes(_, _, _)
add_routes(router, functions, k) ==
    IF k > Len(functions) THEN router
    ELSE add_routes(IF functions[k].methods = <<>>
                    THEN route_all(router, functions[k].path, functions[k].name)
                    ELSE add_methods(router, functions[k], functions[k].methods, 1),
                    functions, k + 1)

\* Server::new: the routes are registered.
new_routes ==
    /\ srv.phase = "routes"
    /\ srv' = [srv EXCEPT !.phase = "bind",
                          !.router = add_routes(EmptyRouter, srv.functions, 1)]
    /\ UNCHANGED requests

\* Server::new: TcpListener::bind(addr)?, task::spawn(run), Ok(Self).
new_listener ==
    /\ srv.phase = "bind"
    /\ srv' = IF srv.bindable THEN Serving(srv) ELSE Abort(srv, "bind failed")
    /\ UNCHANGED requests

\* The paths requested, and whether a route pattern matches a path.
ReqPaths == {"/hello/Ada", "/hello/Bob", "/bye", "/none"}
PathMatches(pattern, path) ==
    \/ pattern = path
    \/ pattern = "/hello/:name" /\ path \in {"/hello/Ada", "/hello/Bob"}

\* route-recognizer: among the patterns of `table` matching `path`, the most
\* specific (a static segment before a dynamic one).
recognize(table, path) ==
    LET hits == {q \in DOMAIN table : PathMatches(q, path)} IN
    IF hits = {} THEN None
    ELSE IF path \in hits THEN Some(table[path])
    ELSE Some(table[CHOOSE q \in hits : TRUE])

\* A faulty router, for comparison: every request is handed to an endpoint.
RouteAnyway(router, path, method) == [kind |-> "endpoint", function |-> ""]

\* tide's Router::route: the table of the request's method, then the table
\* for all methods, then for HEAD the routes of GET, then 405 when another
\* method has the path, else 404.
RECURSIVE route(_, _, _)
route(router, path, method) ==
    LET own == IF method \in DOMAIN router.method_map
               THEN recognize(router.method_map[method], path) ELSE None
        any == recognize(router.all_method_router, path)
    IN IF own.some THEN [kind |-> "endpoint", function |-> own.v]
       ELSE IF any.some THEN [kind |-> "endpoint", function |-> any.v]
       ELSE IF method = "HEAD" THEN route(router, path, "GET")
       ELSE IF \E m \in (DOMAIN router.method_map) \ {method} :
                  recognize(router.method_map[m], path).some
       THEN [kind |-> "method_not_allowed", function |-> ""]
       ELSE [kind |-> "not_found", function |-> ""]

\* The status tide answers with when no endpoint was selected.
StatusOf(kind) == IF kind = "method_not_allowed" THEN 405 ELSE 404

\* Server::run / app.respond(req): the request is routed; the endpoint of the
\* selected function starts invoke_function, or tide answers 404 / 405.
respond(i, r) ==
    /\ srv.phase = "serving"
    /\ disp[i] \in {"idle", "done"}
    /\ task[i] \in {"none", "finished"}
    /\ LET sel == route(srv.router, r.uri, r.method) IN
       IF sel.kind = "endpoint"
       THEN /\ disp' = [disp EXCEPT ![i] = "body"]
            /\ req' = [req EXCEPT ![i] = r]
            /\ target' = [target EXCEPT ![i] = sel.function]
            /\ outcome' = [outcome EXCEPT ![i] = None]
       ELSE /\ disp' = [disp EXCEPT ![i] = "done"]
            /\ req' = [req EXCEPT ![i] = NoReq]
            /\ target' = [target EXCEPT ![i] = ""]
            /\ outcome' = [outcome EXCEPT ![i] =
                  Some([ok |-> FALSE, status |-> StatusOf(sel.kind), resp |-> NoResp,
                        msg |-> "", via |-> sel.kind])]
    /\ task' = [task EXCEPT ![i] = "none"]
    /\ chan' = [chan EXCEPT ![i] = "none"]
    /\ intr' = [intr EXCEPT ![i] = FALSE]
    /\ result' = [result EXCEPT ![i] = None]
    /\ UNCHANGED <<ctx, inst, wasi, guest, lastCall, issued, freed, retired, srv>>

\* ------------------------------------------------------- building a module

\* The custom section `kind` is section 1 ("fn") or 2 ("var") of the modules built.
SectionName(kind) == IF kind = "fn" THEN "__functions" ELSE "__vars"
SectionAt(kind) == IF kind = "fn" THEN 1 ELSE 2

\* A module with both sections empty.
EmptyModule ==
    [parses |-> TRUE, compiles |-> TRUE,
     sections |-> <<[name |-> "__functions", data |-> <<>>],
                    [name |-> "__vars", data |-> <<>>]>>]

\* The items of a list of arrays, in order.
RECURSIVE Flatten(_)
Flatten(arrays) ==
    IF arrays = <<>> THEN <<>> ELSE Head(arrays) \o Flatten(Tail(arrays))

\* One use of a macro: the static emit_descriptor produces is placed by the
\* linker behind what the section `kind` already holds.
link_descriptor(s, kind, items) ==
    [s EXCEPT !.module.sections[SectionAt(kind)].data =
                 @ \o emit_descriptor(to_string(kind, items)),
              !.written[kind] = Append(@, items),
              !.prefix = [len |-> Len(to_string(kind, items)),
                          bytes |-> descriptor_len_bytes(Len(to_string(kind, items)))]]

\* The module with the functions `fs` (one macro each) and the variables `vs`
\* (one var! macro), as Server::new receives it.
RECURSIVE WithFunctions(_, _)
WithFunctions(s, fs) ==
    IF fs = <<>> THEN s
    ELSE WithFunctions(link_descriptor(s, "fn", <<Head(fs)>>), Tail(fs))

\* The length of the last record of section `kind`.
LastRecordLen(s, kind) ==
    4 + Len(to_string(kind, s.written[kind][Len(s.written[kind])]))

\* The bytes of section `kind` are damaged: `cut` > 0 bytes are missing at the
\* end of its last record, or (cut = 0) the record declares a length of 100.
damage_section(s, kind, cut) ==
    LET data == s.module.sections[SectionAt(kind)].data
        at == Len(data) - LastRecordLen(s, kind) + 1
    IN [s EXCEPT !.module.sections[SectionAt(kind)].data =
                    IF cut > 0 THEN SubSeq(data, 1, Len(data) - cut)
                    ELSE [data EXCEPT ![at] = 100],
                 !.damaged[kind] = TRUE]

\* The arrays of names one var! macro declares.
VarArrays == {<<>>, <<"A">>, <<"hello">>, <<"A", "hello">>, <<"A", "A">>}

\* Descriptor lengths whose prefix is computed without the descriptor itself.
SampleLens == {0, 1, 255, 256, 65535, 65536, 16777215, 16777216, 2147483647}

\* A function macro is expanded and linked into the module.
link_function(f) ==
    /\ srv.phase = "new"
    /\ ~srv.damaged["fn"]
    /\ Len(srv.written["fn"]) < MaxRecords
    /\ srv' = link_descriptor(srv, "fn", <<f>>)
    /\ UNCHANGED requests

\* A var! macro is expanded and linked into the module.
link_vars(vs) ==
    /\ srv.phase = "new"
    /\ ~srv.damaged["var"]
    /\ Len(srv.written["var"]) < MaxRecords
    /\ srv' = link_descriptor(srv, "var", vs)
    /\ UNCHANGED requests

\* emit_descriptor computes the prefix for a descriptor of `len` bytes.
emit_prefix(len) ==
    /\ srv.phase = "new"
    /\ srv.written = [fn |-> <<>>, var |-> <<>>]
    /\ srv' = [srv EXCEPT !.prefix = [len |-> len, bytes |-> descriptor_len_bytes(len)]]
    /\ UNCHANGED requests

\* The payloads of a module besides the two descriptor sections: a custom
\* section of another name that holds what would read as a function record,
\* one whose name differs from `__functions` in one letter, and a payload
\* that is no custom section (the code section), whose bytes are no record.
OtherPayloads ==
    {[name |-> "name", data |-> emit_descriptor(to_string("fn", <<FnCatalog[2]>>))],
     [name |-> "__function", data |-> emit_descriptor(to_string("fn", <<FnCatalog[1]>>))],
     [name |-> "", data |-> <<7, 0>>]}

\* The payloads of the module that are not its two descriptor sections.
Others(s) == SubSeq(s.module.sections, 3, Len(s.module.sections))

\* The toolchain places another payload in the module.
link_other(p) ==
    /\ srv.phase = "new"
    /\ Len(Others(srv)) < MaxOther
    /\ srv' = [srv EXCEPT !.module.sections = Append(@, p)]
    /\ UNCHANGED requests

\* The module file is cut short or overwritten inside a section.
damage(kind, cut) ==
    /\ srv.phase = "new"
    /\ ~srv.damaged[kind]
    /\ srv.written[kind] # <<>>
    /\ cut < LastRecordLen(srv, kind)
    /\ srv' = damage_section(srv, kind, cut)
    /\ UNCHANGED requests

\* ------------------------------------------------------------ specifications

Init ==
    /\ disp = [i \in Invs |-> "idle"]
    /\ task = [i \in Invs |-> "none"]
    /\ req = [i \in Invs |-> NoReq]
    /\ ctx = [i \in Invs |-> NoCtx]
    /\ inst = [i \in Invs |-> FALSE]
    /\ chan = [i \in Invs |-> "none"]
    /\ intr = [i \in Invs |-> FALSE]
    /\ result = [i \in Invs |-> None]
    /\ outcome = [i \in Invs |-> None]
    /\ lastCall = NoCall
    /\ issued = [i \in Invs |-> {}]
    /\ freed = [i \in Invs |-> {}]
    /\ retired = [i \in Invs |-> {}]
    /\ srv = Serving(ServerOf(NoModule, EmptyMap, TRUE))
    /\ target = [i \in Invs |-> ""]
    /\ wasi = [i \in Invs |-> EmptyMap]
    /\ guest = [i \in Invs |-> NoGuest]

\* The table of i may allocate one more handle within the bound `cap`.
Room(i, cap) == Cardinality(issued[i]) < cap

\* The steps of the dispatcher and of the closure of request i, once the
\* endpoint has the request.
Invocation(i) ==
    \/ \E b \in BOOLEAN : invoke_function(i, b)
    \/ \E how \in {"fail", "start", "nostart"} : instantiate(i, how)
    \/ start_return(i)
    \/ start_trap(i)
    \/ send_interrupt(i)
    \/ \E e \in {"func", "missing", "badsig"} : lookup_export(i, e)
    \/ \E ret \in 0..MaxHandles : export_return(i, ret)
    \/ export_trap(i)
    \/ select_invocation(i)
    \/ select_timeout(i)
    \/ rx_received(i)
    \/ rx_canceled(i)
\* The steps of the dispatcher and of the closure of request i.
Lifecycle(i) ==
    \/ \E r \in Requests : accept(i, r)
    \/ Invocation(i)

\* The attributes of Cookie k that were set.
AttrsSet(k) ==
    {f \in {"http_only", "secure", "max_age", "same_site", "domain", "path"} :
        k[f] # NewCookie(k.name, k.value)[f]}

\* The guest may set one more attribute on the Cookie under h (a call on a
\* handle that is no Cookie fails and is always possible).
AttrRoom(i, h) ==
    LET g == get_cookie_mut(Tbl(i), h) IN
    IF g.some THEN Cardinality(AttrsSet(g.v)) < MaxAttrs ELSE TRUE

\* The host calls of a guest that creates, frees and transfers resources.
CoreCalls(i, cap, H, S) ==
    \/ \E s \in S : InGuest(i) /\ (Room(i, cap) \/ ~ValidStatus(s)) /\ response_new(i, s)
    \/ \E h \in H : response_free(i, h)
    \/ \E h \in H : response_status_get(i, h)
    \/ \E n \in {"c", BadStr} : InGuest(i) /\ (Room(i, cap) \/ ~StrOk(n)) /\ cookie_new(i, n, "v")
    \/ \E h \in H : cookie_free(i, h)
    \/ \E h \in H, k \in H : response_cookie_insert(i, h, k)

\* The rest of the host call surface on Response and Cookie handles.
MoreCalls(i, cap, H) ==
    \/ \E h \in H, k \in H : response_cookie_remove(i, h, k)
    \/ \E h \in H, n \in HeaderNames \cup {BadStr} :
          response_header_length(i, h, n)
    \/ \E h \in H, n \in HeaderNames \cup {BadStr}, len \in 0..1 :
          response_header_get(i, h, n, len)
    \/ \E h \in H, n \in HeaderNames \cup {BadStr}, v \in HeaderValues :
          response_header_set(i, h, n, v)
    \/ \E h \in H : response_body_length(i, h)
    \/ \E h \in H, len \in 0..1 : response_body_get(i, h, len)
    \/ \E h \in H, b \in Bodies :
          \/ response_body_set(i, h, GoodSlice(b))
          \/ response_body_set(i, h, BadSlice(Len(b)))
    \/ \E h \in H : InGuest(i) /\ AttrRoom(i, h) /\ cookie_http_only_set(i, h)
    \/ \E h \in H : InGuest(i) /\ AttrRoom(i, h) /\ cookie_secure_set(i, h)
    \/ \E h \in H : InGuest(i) /\ AttrRoom(i, h) /\ cookie_max_age_set(i, h, "60")
    \/ \E h \in H : InGuest(i) /\ AttrRoom(i, h) /\ cookie_same_site_set(i, h, "Strict")
    \/ \E h \in H, d \in {"d", BadStr} : InGuest(i) /\ AttrRoom(i, h) /\ cookie_domain_set(i, h, d)
    \/ \E h \in H, d \in {"/", BadStr} : InGuest(i) /\ AttrRoom(i, h) /\ cookie_path_set(i, h, d)

\* The server: concurrent requests, each with its dispatcher, closure and sandbox.
Next == \E i \in Invs : Lifecycle(i) \/ CoreCalls(i, MaxHandles, 0..MaxHandles, {200, 99})

Spec == Init /\ [][Next]_vars

\* One sandbox, running its export with table c, its program holding the
\* values g; nothing else has happened.
RunningAs(c, g) ==
    /\ disp = [i \in Invs |-> IF i = 1 THEN "select" ELSE "idle"]
    /\ task = [i \in Invs |-> IF i = 1 THEN "running" ELSE "none"]
    /\ req = [i \in Invs |-> NoReq]
    /\ ctx = [i \in Invs |-> IF i = 1 THEN c ELSE NoCtx]
    /\ inst = [i \in Invs |-> i = 1]
    /\ chan = [i \in Invs |-> IF i = 1 THEN "sent" ELSE "none"]
    /\ intr = [i \in Invs |-> FALSE]
    /\ result = [i \in Invs |-> None]
    /\ outcome = [i \in Invs |-> None]
    /\ lastCall = NoCall
    /\ issued = [i \in Invs |-> {}]
    /\ freed = [i \in Invs |-> {}]
    /\ retired = [i \in Invs |-> {}]
    /\ srv = Serving(ServerOf(NoModule, EmptyMap, TRUE))
    /\ target = [i \in Invs |-> ""]
    /\ wasi = [i \in Invs |-> EmptyMap]
    /\ guest = [i \in Invs |-> IF i = 1 THEN g ELSE NoGuest]

\* One sandbox, running its export with table c, its program calling the
\* imports directly.
Running(c) == RunningAs(c, NoGuest)

\* One sandbox running its export, with the whole host call surface.
TableInit == \E r \in Requests : Running(NewContext(r))

TableNext ==
    \/ CoreCalls(1, MaxTableHandles, 0..MaxTableHandles, StatusArgs)
    \/ MoreCalls(1, MaxTableHandles, 0..MaxTableHandles)

TableSpec == TableInit /\ [][TableNext]_vars


\* Names a guest passes to request.*; buffer lengths it passes to *_get.
ReqNames == {"x-a", "c", "name", BadStr}
BufLens == 0..3
NamesFor(part) == IF part \in NamedParts THEN ReqNames ELSE {""}

\* The request.* calls of the sandbox of i.
RequestCalls(i) ==
    \/ \E part \in RequestParts : \E n \in NamesFor(part) : request_length(i, part, n)
    \/ \E part \in RequestParts : \E n \in NamesFor(part), len \in BufLens :
          request_get(i, part, n, len)

\* One sandbox running its export: it reads the Request, builds Responses
\* and Cookies, and returns; the dispatcher takes the result.
\* Handle values a guest passes: small ones and the largest one.
GuestHandles == (0..MaxTableHandles) \cup {U32Max}

\* The counter of a fresh table, and that of a table one allocation away
\* from the largest value (after a long run of allocate and free).
CounterStarts == {0, U32Max - 1}

GuestInit ==
    \E r \in Requests, n \in CounterStarts :
        Running([NewContext(r) EXCEPT !.last_handle = n])

GuestNext ==
    \/ RequestCalls(1)
    \/ \E op \in FaultOps, err \in Faults : guest_fault(1, op, err)
    \/ CoreCalls(1, MaxTableHandles, GuestHandles, {200, 99})
    \/ \E h \in GuestHandles, n \in HeaderNames, v \in HeaderValues :
          response_header_set(1, h, n, v)
    \/ \E h \in GuestHandles, n \in HeaderNames, len \in BufLens :
          response_header_get(1, h, n, len)
    \/ \E h \in GuestHandles, b \in Bodies : response_body_set(1, h, GoodSlice(b))
    \/ \E h \in GuestHandles, len \in BufLens : response_body_get(1, h, len)
    \/ \E ret \in GuestHandles : export_return(1, ret)
    \/ select_invocation(1)

GuestSpec == GuestInit /\ [][GuestNext]_vars

\* No request has arrived.
NoRequests ==
    /\ disp = [i \in Invs |-> "idle"]
    /\ task = [i \in Invs |-> "none"]
    /\ req = [i \in Invs |-> NoReq]
    /\ ctx = [i \in Invs |-> NoCtx]
    /\ inst = [i \in Invs |-> FALSE]
    /\ chan = [i \in Invs |-> "none"]
    /\ intr = [i \in Invs |-> FALSE]
    /\ result = [i \in Invs |-> None]
    /\ outcome = [i \in Invs |-> None]
    /\ lastCall = NoCall
    /\ issued = [i \in Invs |-> {}]
    /\ freed = [i \in Invs |-> {}]
    /\ retired = [i \in Invs |-> {}]
    /\ target = [i \in Invs |-> ""]
    /\ wasi = [i \in Invs |-> EmptyMap]
    /\ guest = [i \in Invs |-> NoGuest]

\* A module is built, possibly damaged, and then read by Server::new.
DecodeInit ==
    /\ NoRequests
    /\ srv = ServerOf(EmptyModule, EmptyMap, TRUE)

DecodeNext ==
    \/ \E k \in 1..Len(FnCatalog) : link_function(FnCatalog[k])
    \/ \E vs \in VarArrays : link_vars(vs)
    \/ \E len \in SampleLens : emit_prefix(len)
    \/ \E kind \in {"fn", "var"}, cut \in 0..6 : damage(kind, cut)
    \/ \E p \in OtherPayloads : link_other(p)
    \/ new_metadata

DecodeSpec == DecodeInit /\ [][DecodeNext]_vars

\* The environments of the provider.
EnvA == MapPut(EmptyMap, "A", "1")
EnvAll == MapPut(EnvA, "hello", "2")

\* Whether the module parses, whether it compiles, whether the address can be
\* bound; and the damage done to a section (as in damage_section).
Sound == <<TRUE, TRUE, TRUE>>
Whole == <<"none", 0>>

\* The Server::new calls considered: the functions declared (by their place in
\* FnCatalog), one var! record, the environment, and the faults.
Starts ==
    {<<<<1>>, <<"A", "hello">>, EnvAll, Sound, Whole>>,
     <<<<2, 1>>, <<>>, EnvA, Sound, Whole>>,
     <<<<1, 3>>, <<"A">>, EnvA, Sound, Whole>>,
     <<<<2, 5>>, <<"hello">>, EnvAll, Sound, Whole>>,
     <<<<>>, <<"A">>, EnvA, Sound, Whole>>,
     <<<<1, 4>>, <<"A">>, EnvA, Sound, Whole>>,
     <<<<1>>, <<"A", "A">>, EnvA, Sound, Whole>>,
     <<<<1>>, <<"A", "hello">>, EnvA, Sound, Whole>>,
     <<<<1, 3>>, <<"A">>, EnvA, Sound, <<"fn", 1>>>>,
     <<<<1, 3>>, <<"A">>, EnvA, Sound, <<"var", 0>>>>,
     <<<<1>>, <<"A">>, EnvA, <<FALSE, TRUE, TRUE>>, Whole>>,
     <<<<1>>, <<"A">>, EnvA, <<TRUE, FALSE, TRUE>>, Whole>>,
     <<<<1>>, <<"A">>, EnvA, <<TRUE, TRUE, FALSE>>, Whole>>}

\* The Server::new call for one such choice.
Built(fs, vs, e, b, d) ==
    LET linked == link_descriptor(
                     WithFunctions(ServerOf(EmptyModule, e, b[3]),
                                   [k \in 1..Len(fs) |-> FnCatalog[fs[k]]]),
                     "var", vs)
        whole == [linked EXCEPT !.module.parses = b[1], !.module.compiles = b[2]]
    IN IF d[1] # "none" /\ whole.written[d[1]] # <<>>
       THEN damage_section(whole, d[1], d[2]) ELSE whole

\* The requests clients send.
ReqMethods == {"GET", "HEAD", "POST"}
HttpRequests ==
    {[method |-> m, uri |-> p, body |-> <<>>,
      headers |-> EmptyMap, cookies |-> EmptyMap, params |-> EmptyMap] :
        m \in ReqMethods, p \in ReqPaths}

\* Server::new is called on a module, and the Server it returns is sent requests.
ServerInit ==
    /\ NoRequests
    /\ \E c \in Starts : srv = Built(c[1], c[2], c[3], c[4], c[5])

ServerNext ==
    \/ new_metadata
    \/ new_var
    \/ new_module
    \/ new_routes
    \/ new_listener
    \/ \E i \in Invs, r \in HttpRequests : respond(i, r)
    \/ \E i \in Invs : Invocation(i)

ServerSpec == ServerInit /\ [][ServerNext]_vars

\* The server with concurrent requests, any of which may be dropped by the
\* executor while its invocation is under way.
DropNext == Next \/ \E i \in Invs : drop_request(i)

DropSpec == Init /\ [][DropNext]_vars

\* The dispatcher of request i: select! and the timeout branch.
DispatcherStep(i) ==
    (\E b \in BOOLEAN : invoke_function(i, b)) \/ select_invocation(i) \/ select_timeout(i) \/ rx_received(i) \/ rx_canceled(i)

\* The host's own steps in the closure of i, and the trap an interrupted Store
\* takes at its next loop header or function entry. Guest code that was not
\* interrupted may run forever.
ClosureStep(i) ==
    \/ \E how \in {"fail", "start", "nostart"} : instantiate(i, how)
    \/ send_interrupt(i)
    \/ \E e \in {"func", "missing", "badsig"} : lookup_export(i, e)
    \/ intr[i] /\ export_trap(i)

\* The server with its scheduling: the async executor polls a dispatcher that
\* can move, the blocking pool runs a spawned closure, the Delay fires.
FairSpec ==
    Spec /\ \A i \in Invs : WF_vars(DispatcherStep(i)) /\ WF_vars(ClosureStep(i))

\* ------------------------------------------------------------------ claims

\* A host call was made in this step.
CallStep == lastCall' # lastCall /\ lastCall'.op # "none" /\ lastCall'.op # "export_return"

\* The handle arguments of the call `k`.
HandlesOf(k) ==
    IF k.op \in TransferOps THEN {k.h, k.h2}
    ELSE IF k.op \in ResponseOps \cup CookieOps THEN {k.h} ELSE {}

Live(i) == ctx[i] # NoCtx

\* C1: each invocation gets its own handle table, created by instantiate with
\* an empty handle map, counter 0 and its own Request, and its own sandbox
\* instance; a host call made by one invocation changes the table of no other
\* invocation, and succeeds on a handle only if its own table holds it.
C1_OwnTable ==
    [][\A i \in Invs :
         /\ (~Live(i) /\ ctx'[i] # NoCtx) =>
               /\ ctx'[i] = [request |-> req[i], handles |-> EmptyMap, last_handle |-> 0]
               /\ inst'[i]
               /\ \A j \in Invs \ {i} : ctx'[j] = ctx[j] /\ inst'[j] = inst[j]
         /\ (CallStep /\ lastCall'.inv = i) =>
               /\ \A j \in Invs \ {i} : ctx'[j] = ctx[j]
               /\ Live(i) /\ ctx'[i].request = ctx[i].request
               /\ lastCall'.err = Ok => HandlesOf(lastCall') \subseteq DOMAIN ctx[i].handles
      ]_vars

\* Two sandboxes run at once on different requests, each with a resource in its
\* table, and the second has just made a host call.
C1_Witness ==
    /\ task[1] = "running" /\ task[2] = "running"
    /\ ctx[1].handles # EmptyMap /\ ctx[2].handles # EmptyMap
    /\ ctx[1].request # ctx[2].request
    /\ lastCall.inv = 2 /\ lastCall.op = "response_new" /\ lastCall.err = Ok


\* C2: if the deadline elapses before the closure has produced a result, the
\* dispatcher eventually interrupts the sandbox and answers the request with
\* the timeout error, whatever stage the closure is in.
C2_TimeoutAnswers ==
    \A i \in Invs :
        (disp[i] = "await_rx" /\ ~result[i].some)
            ~> (intr[i] /\ outcome[i].some /\ outcome[i].v.msg = TimedOutMsg)

\* C3: a request gets one outcome, and once the dispatcher has taken the
\* timeout branch that outcome is the timeout error, never a Response of the
\* closure.
C3_TimeoutFixed ==
    [][\A i \in Invs :
         /\ (outcome[i].some /\ disp'[i] = "done") => outcome'[i] = outcome[i]
         /\ (disp[i] = "await_rx" /\ disp'[i] = "done") =>
               /\ outcome'[i].some
               /\ ~outcome'[i].v.ok
               /\ outcome'[i].v.msg = TimedOutMsg
      ]_vars

\* C4: whichever outcome an invocation reaches, its handle table and its
\* sandbox instance are eventually destroyed, and the next invocation starts
\* from an empty table with counter 0: it sees no handle of an earlier one.
C4_TornDown ==
    /\ \A i \in Invs : outcome[i].some ~> (ctx[i] = NoCtx /\ ~inst[i])
    /\ [][\A i \in Invs :
            (ctx'[i] # ctx[i] /\ task[i] = "spawned" /\ ctx'[i] # NoCtx) =>
                /\ ctx'[i].handles = EmptyMap
                /\ ctx'[i].last_handle = 0
                /\ issued'[i] = {}
         ]_vars

\* The request was answered with the timeout error while its sandbox and its
\* table, holding a resource, still exist.
C4_Witness ==
    /\ outcome[1].some /\ outcome[1].v.msg = TimedOutMsg
    /\ ctx[1] # NoCtx /\ inst[1] /\ ctx[1].handles # EmptyMap

\* The Cookie handle argument of the call `k` (0 when it takes none), and its
\* Response handle argument.
CookieArg(k) ==
    IF k.op \in TransferOps THEN k.h2 ELSE IF k.op \in CookieOps THEN k.h ELSE 0
ResponseArg(k) == IF k.op \in ResponseOps THEN k.h ELSE 0

\* C5: within one table the first handle returned is 1, every later successful
\* allocation returns a value above all earlier ones and never one returned
\* before (also after a free or a transfer), every live handle lies in
\* 1..last_handle, and last_handle never decreases.
C5_HandlesIncrease ==
    [][/\ ~U32Less(ctx'[1].last_handle, ctx[1].last_handle)
       /\ \A h \in DOMAIN ctx'[1].handles :
             U32Less(0, h) /\ ~U32Less(ctx'[1].last_handle, h)
       /\ (CallStep /\ lastCall'.op \in NewOps /\ lastCall'.err = Ok) =>
             /\ issued[1] = {} => lastCall'.val.n = 1
             /\ \A g \in issued[1] : U32Less(g, lastCall'.val.n)
             /\ lastCall'.val.n \notin issued[1]
             /\ lastCall'.val.n \in DOMAIN ctx'[1].handles
      ]_vars

\* Handle 2 was allocated after handle 1 had been freed or transferred.
C5_Witness ==
    /\ lastCall.op \in NewOps /\ lastCall.err = Ok /\ lastCall.val.n = 2
    /\ 1 \in freed[1]
    /\ DOMAIN ctx[1].handles = {2}

\* C6: a host call taking a Response handle that is given the handle of a
\* Cookie, and a host call taking a Cookie handle that is given the handle of a
\* Response or a handle with no entry, returns InvalidHandle and leaves the
\* entry under that handle as it was.
C6_WrongKindRejected ==
    [][CallStep =>
         /\ (/\ lastCall'.op \in ResponseOps
             /\ get_cookie_mut(ctx[1], ResponseArg(lastCall')).some) =>
               /\ lastCall'.err = InvalidHandle
               /\ ResponseArg(lastCall') \in DOMAIN ctx'[1].handles
               /\ ctx'[1].handles[ResponseArg(lastCall')]
                     = ctx[1].handles[ResponseArg(lastCall')]
         /\ (/\ lastCall'.op \in CookieOps \cup TransferOps
             /\ ~get_cookie_mut(ctx[1], CookieArg(lastCall')).some) =>
               /\ lastCall'.err = InvalidHandle
               /\ CookieArg(lastCall') \in DOMAIN ctx[1].handles =>
                     /\ CookieArg(lastCall') \in DOMAIN ctx'[1].handles
                     /\ ctx'[1].handles[CookieArg(lastCall')]
                           = ctx[1].handles[CookieArg(lastCall')]
      ]_vars

\* The fields of a table entry that no host call changes.
Identity(e) ==
    IF e.kind = "Response" THEN <<e.kind, e.status>> ELSE <<e.kind, e.name, e.value>>

\* C7: a resource put into the table is what accesses with the right kind find
\* until it is removed; a remove with the right kind succeeds and takes the
\* entry out; every later call on that handle, a second free included, fails
\* with InvalidHandle.
C7_ExactlyOnce ==
    [][/\ \A h \in (DOMAIN ctx[1].handles) \cap (DOMAIN ctx'[1].handles) :
             Identity(ctx'[1].handles[h]) = Identity(ctx[1].handles[h])
       /\ CallStep =>
             /\ (lastCall'.op = "response_new" /\ lastCall'.err = Ok) =>
                   /\ lastCall'.val.n \notin DOMAIN ctx[1].handles
                   /\ ctx'[1].handles
                         = MapPut(ctx[1].handles, lastCall'.val.n, NewResponse(lastCall'.h2))
             /\ (lastCall'.op = "cookie_new" /\ lastCall'.err = Ok) =>
                   /\ lastCall'.val.n \notin DOMAIN ctx[1].handles
                   /\ get_cookie_mut(ctx'[1], lastCall'.val.n).some
                   /\ AttrsSet(ctx'[1].handles[lastCall'.val.n]) = {}
             /\ (/\ lastCall'.op = "response_status_get"
                 /\ get_response(ctx[1], lastCall'.h).some) =>
                   /\ lastCall'.err = Ok
                   /\ lastCall'.val.n = ctx[1].handles[lastCall'.h].status
             /\ (/\ lastCall'.op = "response_free"
                 /\ get_response(ctx[1], lastCall'.h).some) =>
                   /\ lastCall'.err = Ok
                   /\ ctx'[1].handles = MapDel(ctx[1].handles, lastCall'.h)
             /\ (/\ lastCall'.op = "cookie_free"
                 /\ get_cookie_mut(ctx[1], lastCall'.h).some) =>
                   /\ lastCall'.err = Ok
                   /\ ctx'[1].handles = MapDel(ctx[1].handles, lastCall'.h)
             /\ (HandlesOf(lastCall') \cap freed[1] # {}) =>
                   lastCall'.err = InvalidHandle
      ]_vars

\* A Response was freed twice: the second response_free has just failed.
C7_Witness ==
    /\ lastCall.op = "response_free" /\ lastCall.err = InvalidHandle
    /\ lastCall.h \in freed[1] \ retired[1]

C9_CookieRetired ==
    [][CallStep =>
         /\ (HandlesOf(lastCall') \cap retired[1] # {}) =>
               lastCall'.err = InvalidHandle
         /\ (lastCall'.op \in TransferOps /\ lastCall'.err = Ok) =>
               /\ get_cookie_mut(ctx[1], lastCall'.h2).some
               /\ lastCall'.h2 \notin DOMAIN ctx'[1].handles
               /\ get_response(ctx[1], lastCall'.h).some
               /\ get_response(ctx'[1], lastCall'.h).some
               /\ ctx'[1].handles[lastCall'.h].cookies
                     = Append(ctx[1].handles[lastCall'.h].cookies,
                              [event |-> IF lastCall'.op = "response_cookie_insert"
                                         THEN "Added" ELSE "Removed",
                               cookie |-> ctx[1].handles[lastCall'.h2]])
               /\ DOMAIN ctx'[1].handles = (DOMAIN ctx[1].handles) \ {lastCall'.h2}
      ]_vars

\* A Cookie was transferred into a Response that is still in the table, and a
\* cookie call on the retired handle has just failed.
C9_Witness ==
    /\ lastCall.op \in CookieOps /\ lastCall.err = InvalidHandle
    /\ lastCall.h \in retired[1]
    /\ \E r \in DOMAIN ctx[1].handles :
          /\ ctx[1].handles[r].kind = "Response"
          /\ Len(ctx[1].handles[r].cookies) = 1

\* The Response entry `e` as the tide::Response handed to the client.
AsReply(e) ==
    [status |-> e.status, headers |-> e.headers, cookies |-> e.cookies,
     body |-> e.body]

\* C10: when the export returns, the value is resolved by removing it from the
\* table as a Response: a live Response becomes the reply; a value naming no
\* entry, a Cookie or a freed Response makes the closure fail, and the request
\* is answered with status 500 and that failure's text.
C10_ReturnResolved ==
    [][\A i \in Invs :
         /\ (/\ task[i] = "running" /\ task'[i] = "finished"
             /\ lastCall'.op = "export_return" /\ lastCall'.inv = i) =>
               IF get_response(ctx[i], lastCall'.h).some
               THEN result'[i] = Some(OkResult(AsReply(ctx[i].handles[lastCall'.h])))
               ELSE result'[i] =
                       Some(ErrResult("function did not return a HTTP response"))
         /\ (disp[i] = "select" /\ disp'[i] = "done") =>
               /\ result[i].some /\ outcome'[i].some
               /\ outcome'[i].v.ok = result[i].v.ok
               /\ IF result[i].v.ok
                  THEN /\ outcome'[i].v.resp = result[i].v.resp
                       /\ outcome'[i].v.status = result[i].v.resp.status
                  ELSE /\ outcome'[i].v.status = 500
                       /\ outcome'[i].v.msg = result[i].v.msg
                       /\ outcome'[i].v.resp = NoResp
      ]_vars

\* The export of invocation 1 has just returned handle 1, which named no live
\* Response, while invocation 2 is running.
C10_Witness ==
    /\ lastCall.op = "export_return" /\ lastCall.inv = 1 /\ lastCall.h = 1
    /\ lastCall.err = InvalidHandle
    /\ result[1] = Some(ErrResult("function did not return a HTTP response"))
    /\ task[2] = "running"

\* Invocation i has failed: its closure returned an error, or the dispatcher
\* took the timeout branch.
Failed(i) == (result[i].some /\ ~result[i].v.ok) \/ disp[i] = "await_rx"

\* The outcome `o` is an internal-error response.
InternalError(o) ==
    o.some /\ ~o.v.ok /\ o.v.status = 500 /\ o.v.resp = NoResp /\ o.v.msg # ""

\* C11: every failure of an invocation (instantiation, trap in the start
\* function, missing export, wrong signature, trap in the call, timeout) is
\* answered by the dispatcher with an internal-error response; an export with a
\* wrong signature is never called; the failure leaves the server and the
\* other requests as they were.
C11_FailuresAnswered ==
    /\ \A i \in Invs : Failed(i) ~> InternalError(outcome[i])
    /\ [][\A i \in Invs :
            /\ (result'[i] = Some(ErrResult("function has an incorrect signature."))
                /\ result'[i] # result[i]) => task[i] = "lookup"
            /\ (Failed(i)' /\ ~Failed(i)) =>
                  /\ srv' = srv
                  /\ \A j \in Invs \ {i} :
                        /\ disp'[j] = disp[j] /\ task'[j] = task[j]
                        /\ ctx'[j] = ctx[j] /\ result'[j] = result[j]
                        /\ outcome'[j] = outcome[j]
         ]_vars

WrittenFunctions == Flatten(srv.written["fn"])
WrittenNames == [k \in 1..Len(WrittenFunctions) |-> WrittenFunctions[k].name]
WrittenVars == Flatten(srv.written["var"])

\* The names that occur more than once in `names`.
Repeated(names) ==
    {names[k] : k \in {k \in 1..Len(names) : \E j \in 1..(k - 1) : names[j] = names[k]}}

\* No byte of the module was changed after the macros wrote it.
Intact == ~srv.damaged["fn"] /\ ~srv.damaged["var"]

\* C18: from_module_bytes fails with an error naming a repeated entry when a
\* function name or a variable name occurs twice in what was decoded, and it
\* succeeds with every entry kept when each function name and each variable
\* name occurs once; a function and a variable of the same name are no
\* duplicate.
C18_DuplicatesRejected ==
    (srv.loaded.some /\ Intact) =>
        IF Repeated(WrittenNames) # {}
        THEN /\ ~srv.loaded.v.ok
             /\ srv.loaded.v.msg = "WebAssembly module has a duplicate function"
             /\ srv.loaded.v.detail \in Repeated(WrittenNames)
             /\ srv.phase = "failed" /\ srv.functions = <<>> /\ srv.vars = <<>>
        ELSE IF Repeated(WrittenVars) # {}
        THEN /\ ~srv.loaded.v.ok
             /\ srv.loaded.v.msg = "WebAssembly module has a duplicate variable"
             /\ srv.loaded.v.detail \in Repeated(WrittenVars)
             /\ srv.phase = "failed" /\ srv.functions = <<>> /\ srv.vars = <<>>
        ELSE /\ srv.loaded.v.ok
             /\ srv.loaded.v.v.functions = WrittenFunctions
             /\ srv.loaded.v.v.vars = WrittenVars

\* A module whose second var! record repeats a name of the first was refused,
\* the error naming "A".
C18_Witness ==
    /\ srv.loaded.some /\ Intact
    /\ WrittenNames = <<"hello", "ada">>
    /\ srv.written["var"] = <<<<"A", "hello">>, <<"A">>>>
    /\ srv.loaded.v.msg = "WebAssembly module has a duplicate variable"
    /\ srv.loaded.v.detail = "A"

\* C19: when a length field has fewer than 4 bytes left, or a record declares
\* more bytes than its section still holds, the section is refused and
\* from_module_bytes returns an error and no metadata, also when earlier
\* records of the section were decoded.
C19_FramingRejected ==
    (srv.loaded.some /\ ~Intact) =>
        /\ ~srv.loaded.v.ok
        /\ srv.loaded.v.detail = NotEnoughData
        /\ srv.loaded.v.msg =
              (IF srv.damaged["fn"]
               THEN "WebAssembly module has an invalid '__functions' section"
               ELSE "WebAssembly module has an invalid '__vars' section")
        /\ srv.loaded.v.v = <<>>
        /\ srv.phase = "failed" /\ srv.functions = <<>> /\ srv.vars = <<>>

\* The second record of the functions section declares 100 bytes and holds 3;
\* the first record is whole. The module was refused.
C19_Witness ==
    /\ srv.loaded.some
    /\ srv.damaged["fn"] /\ ~srv.damaged["var"]
    /\ Len(srv.written["fn"]) = 2
    /\ Len(srv.module.sections[SectionAt("fn")].data) = 14
    /\ srv.module.sections[SectionAt("fn")].data[8] = 100
    /\ ~srv.loaded.v.ok

\* C20: the decoder reads back, from the records the encoder wrote, exactly
\* the descriptors written and in the order written, and consumes the whole
\* section; read_data_len of the prefix emit_descriptor writes is the length
\* of the payload.
C20_RoundTrip ==
    /\ read_data_len(srv.prefix.bytes) = Some(srv.prefix.len)
    /\ Intact =>
          /\ read_sections(srv.module.sections, 1, <<>>, <<>>)
                = Okay([functions |-> WrittenFunctions, vars |-> WrittenVars])
          /\ \A kind \in {"fn", "var"} :
                read_section_data(kind, srv.module.sections[SectionAt(kind)].data, 0, <<>>)
                   = Okay(Flatten(srv.written[kind]))

\* Two function records and two var! records of different lengths were
\* written and read back; the record written last was the empty array.
C20_Witness ==
    /\ Intact /\ srv.loaded.some /\ srv.loaded.v.ok
    /\ srv.written["fn"] = <<<<FnCatalog[3]>>, <<FnCatalog[1]>>>>
    /\ srv.written["var"] = <<<<"A", "hello">>, <<>>>>
    /\ srv.functions = <<FnCatalog[3], FnCatalog[1]>>
    /\ srv.vars = <<"A", "hello">>
    /\ srv.prefix = [len |-> 2, bytes |-> <<2, 0, 0, 0>>]

\* The function f is declared for the request r: its path pattern matches the
\* path, and its method set is empty or holds the method.
Declares(f, r) ==
    /\ PathMatches(f.path, r.uri)
    /\ f.methods = <<>> \/ \E k \in 1..Len(f.methods) : f.methods[k] = r.method

\* The places in Metadata.functions of the functions declared for r.
Declared(r) == {k \in 1..Len(srv.functions) : Declares(srv.functions[k], r)}

\* C13: a request invokes at most one function, and when several declared
\* functions match its method and path it invokes the one that comes first in
\* Metadata.functions.
C13_FirstMatchWins ==
    [][\A i \in Invs, r \in HttpRequests :
          (respond(i, r) /\ Declared(r) # {}) =>
              /\ disp'[i] = "body"
              /\ target'[i] =
                    srv.functions[CHOOSE k \in Declared(r) :
                                     \A j \in Declared(r) : k <= j].name
      ]_vars

\* The function at place k is the only declared function whose path pattern
\* matches the path of r.
Alone(k, r) ==
    /\ PathMatches(srv.functions[k].path, r.uri)
    /\ \A j \in 1..Len(srv.functions) :
          j # k => ~PathMatches(srv.functions[j].path, r.uri)

\* The request r invokes the function f in the step taken.
Invokes(i, f) == disp'[i] = "body" /\ target'[i] = f.name

\* Every method of every declared function has a route for the function's path.
AllRegistered ==
    \A k \in 1..Len(srv.functions) : \A n \in 1..Len(srv.functions[k].methods) :
        LET m == srv.functions[k].methods[n] IN
        /\ m \in DOMAIN srv.router.method_map
        /\ srv.functions[k].path \in DOMAIN srv.router.method_map[m]

Answering(r) ==
    Declared(r) \cup (IF r.method = "HEAD" THEN Declared([r EXCEPT !.method = "GET"]) ELSE {})

\* The step has answered request i with `statuses` without a sandbox, without
\* an export called, and with the Server and the other requests as they were.
AnsweredUnserved(i, statuses) ==
    /\ disp'[i] = "done" /\ task'[i] = "none" /\ target'[i] = ""
    /\ outcome'[i].some /\ ~outcome'[i].v.ok /\ outcome'[i].v.status \in statuses
    /\ outcome'[i].v.resp = NoResp
    /\ ~inst'[i] /\ result'[i] = None /\ ctx'[i] = NoCtx
    /\ inst' = inst /\ ctx' = ctx /\ wasi' = wasi /\ lastCall' = lastCall
    /\ srv' = srv /\ srv'.phase = "serving" /\ srv'.listening
    /\ \A j \in Invs \ {i} :
          /\ disp'[j] = disp[j] /\ task'[j] = task[j] /\ outcome'[j] = outcome[j]
          /\ target'[j] = target[j] /\ req'[j] = req[j]

Faulty ==
    \/ ~Intact
    \/ Repeated(WrittenNames) # {}
    \/ Repeated(WrittenVars) # {}
    \/ WrittenFunctions = <<>>
    \/ \E k \in 1..Len(WrittenVars) : WrittenVars[k] \notin DOMAIN srv.environment

\* C16: on such a module Server::new ends in an error; it binds no listener,
\* registers no route, and no request is ever served.
C16_StartupRefused ==
    Faulty =>
        /\ srv.phase \in {"new", "vars", "failed"}
        /\ srv.phase = "vars" => Len(srv.asked) < Len(srv.vars)
        /\ srv.phase = "failed" => srv.error # ""
        /\ ~srv.listening
        /\ srv.router = EmptyRouter
        /\ \A i \in Invs :
              /\ disp[i] = "idle" /\ task[i] = "none" /\ outcome[i] = None
              /\ ~inst[i] /\ target[i] = ""

\* Server::new has failed on the variable "hello", which the provider does not
\* know, after it resolved "A".
C16_Witness ==
    /\ srv.phase = "failed"
    /\ srv.error = "environment variable not found"
    /\ srv.asked = <<"A", "hello">>
    /\ DOMAIN srv.environment = {"A"}
    /\ ~srv.listening /\ srv.router = EmptyRouter

\* C17: the provider is asked once for each declared variable, in Server::new
\* and before a request is accepted, never afterwards; every sandbox is given
\* exactly the names and values resolved then.
C17_EnvResolvedOnce ==
    /\ [](/\ Repeated(srv.asked) = {}
          /\ srv.phase \in {"routes", "bind", "serving"} =>
                /\ srv.asked = srv.vars
                /\ DOMAIN srv.env = {srv.vars[k] : k \in 1..Len(srv.vars)}
                /\ \A n \in DOMAIN srv.env : srv.env[n] = srv.environment[n]
          /\ srv.phase # "serving" => \A i \in Invs : disp[i] = "idle" /\ ~inst[i]
          /\ \A i \in Invs : inst[i] => wasi[i] = srv.env)
    /\ [][/\ srv'.asked # srv.asked =>
                /\ srv.phase = "vars"
                /\ srv'.asked = Append(srv.asked, srv.vars[Len(srv.asked) + 1])
          /\ srv.phase = "serving" => srv'.asked = srv.asked /\ srv'.env = srv.env
         ]_vars

\* The module declares the variable "hello" and the provider knows "A" and
\* "hello": both sandboxes were given "hello" alone.
C17_Witness ==
    /\ srv.phase = "serving" /\ srv.asked = <<"hello">>
    /\ DOMAIN srv.environment = {"A", "hello"}
    /\ inst[1] /\ wasi[1] = MapPut(EmptyMap, "hello", "2")
    /\ inst[2] /\ wasi[2] = MapPut(EmptyMap, "hello", "2")

\* ------------------------------------------------------------------- C21

\* The value a *_get of the Request would copy, when there is one.
C21_RequestValue(part, n) ==
    IF part \in NamedParts /\ ~StrOk(n) THEN None ELSE RequestPart(ctx[1], part, n)

\* C21: for every length-then-copy pair, when the value exists, a *_get call
\* with a guest buffer at least as long as the value succeeds and copies the
\* value into the buffer.
C21_AtLeastSuffices ==
    [][/\ \A part \in RequestParts : \A n \in NamesFor(part), len \in BufLens :
            (/\ request_get(1, part, n, len)
             /\ C21_RequestValue(part, n).some
             /\ len >= Len(C21_RequestValue(part, n).v))
            => /\ lastCall'.err = Ok
               /\ IF part = "body"
                  THEN lastCall'.val.b = C21_RequestValue(part, n).v
                  ELSE lastCall'.val.s = C21_RequestValue(part, n).v
       /\ \A h \in GuestHandles, n \in HeaderNames, len \in BufLens :
            (/\ response_header_get(1, h, n, len)
             /\ get_response(ctx[1], h).some
             /\ n \in DOMAIN get_response(ctx[1], h).v.headers
             /\ len >= Len(get_response(ctx[1], h).v.headers[n]))
            => lastCall'.err = Ok /\ lastCall'.val.s = ctx[1].handles[h].headers[n]
       /\ \A h \in GuestHandles, len \in BufLens :
            (/\ response_body_get(1, h, len)
             /\ get_response(ctx[1], h).some
             /\ len >= Len(get_response(ctx[1], h).v.body))
            => lastCall'.err = Ok /\ lastCall'.val.b = ctx[1].handles[h].body]_vars

\* ------------------------------------------------------------------- C22

\* The fault at the bottom of a chain of InFunc wrappers.
RECURSIVE C22_Wrapped(_)
C22_Wrapped(err) == IF err.tag = "InFunc" THEN C22_Wrapped(err.err) ELSE err

\* The code the guest is to see for a fault that is not a wrapper.
C22_Code(tag) ==
    IF tag \in {"PtrOverflow", "PtrOutOfBounds", "PtrBorrowed",
                "BorrowCheckerOutOfHandles"} THEN {InvalidPointer}
    ELSE IF tag = "InvalidUtf8" THEN {InvalidUtf8}
    ELSE IF tag = "SliceLengthsDiffer" THEN {InvalidLength}
    ELSE IF tag = "TryFromIntError" THEN {IntegerOverflow}
    ELSE IF tag \in {"InvalidEnumValue", "InvalidFlagValue"} THEN {InvalidArgument}
    ELSE {InvalidHandle, InvalidArgument, InvalidUtf8, InvalidLength,
          HandlesExhausted, InvalidPointer, IntegerOverflow}

\* C22: a host call in which an access to guest memory faults returns a code
\* other than Ok, the code of the fault's kind (that of the wrapped fault for
\* InFunc), and a buffer length mismatch in a copy returns InvalidLength.
C22_FaultsAreTyped ==
    [][/\ lastCall'.op \in FaultOps
          => \A err \in Faults :
                (ctx' = ctx /\ guest_fault(1, lastCall'.op, err))
                => /\ lastCall'.err # Ok
                   /\ lastCall'.err \in C22_Code(C22_Wrapped(err).tag)
       /\ \A part \in RequestParts :
            lastCall'.op = "request_" \o part \o "_get"
            => \A n \in NamesFor(part), len \in BufLens :
                  (/\ request_get(1, part, n, len)
                   /\ C21_RequestValue(part, n).some
                   /\ len # Len(C21_RequestValue(part, n).v))
                  => lastCall'.err = InvalidLength]_vars

\* A fault wrapped in InFunc was returned as the code of the fault inside.
C22_Witness ==
    /\ lastCall.op \in FaultOps
    /\ lastCall.err = IntegerOverflow
    /\ from(InFunc(Fault("TryFromIntError"))) = lastCall.err

\* ------------------------------------------------------------------- C23

\* C23: with the handle counter at the largest 32-bit value, response.new and
\* cookie.new with valid arguments fail with HandlesExhausted, and the table
\* (counter, entries, live handles) is left as it was.
C23_ExhaustedNotWrapped ==
    [][/\ \A s \in {200, 99} :
            (/\ response_new(1, s)
             /\ ctx[1].last_handle = U32Max)
            => /\ lastCall'.err = (IF ValidStatus(s) THEN HandlesExhausted ELSE InvalidArgument)
               /\ ctx' = ctx
       /\ \A n \in {"c", BadStr} :
            (/\ cookie_new(1, n, "v")
             /\ ctx[1].last_handle = U32Max)
            => /\ lastCall'.err = (IF StrOk(n) THEN HandlesExhausted ELSE InvalidUtf8)
               /\ ctx' = ctx]_vars

\* response.new was refused at the largest counter value while the handle
\* with that value was live, and the handle is still a Response.
C23_Witness ==
    /\ lastCall.op = "response_new"
    /\ lastCall.err = HandlesExhausted
    /\ Tbl(1) # NoCtx
    /\ ctx[1].last_handle = U32Max
    /\ get_response(ctx[1], U32Max).some

\* ------------------------------------------------------------------- C24

\* The Response entry under h in the table of invocation 1.
C24_Entry(h) == ctx[1].handles[h]

\* C24: a Response created with status 200 starts with that status and no
\* header or cookie; setting a header adds that header with its value and
\* nothing else; inserting a Cookie adds exactly that cookie; and the reply
\* the dispatcher delivers for the returned handle has the status, headers
\* and cookie set of that Response.
C24_ReplyIsTheResponse ==
    [][/\ (lastCall'.err = Ok /\ response_new(1, 200))
          => ctx'[1].handles[lastCall'.val.n] = NewResponse(200)
       /\ \A n \in HeaderNames, v \in HeaderValues :
            (/\ lastCall'.err = Ok
             /\ response_header_set(1, lastCall'.h, n, v))
            => ctx'[1].handles[lastCall'.h] =
                  [C24_Entry(lastCall'.h) EXCEPT !.headers = MapPut(@, n, v)]
       /\ (lastCall'.err = Ok /\ response_cookie_insert(1, lastCall'.h, lastCall'.h2))
          => ctx'[1].handles[lastCall'.h] =
                [C24_Entry(lastCall'.h) EXCEPT !.cookies =
                    Append(@, [event |-> "Added", cookie |-> C24_Entry(lastCall'.h2)])]
       /\ (lastCall'.err = Ok /\ export_return(1, lastCall'.h))
          => /\ result'[1].some /\ result'[1].v.ok
             /\ result'[1].v.resp.status = C24_Entry(lastCall'.h).status
             /\ result'[1].v.resp.headers = C24_Entry(lastCall'.h).headers
             /\ result'[1].v.resp.cookies = C24_Entry(lastCall'.h).cookies
       /\ (select_invocation(1) /\ result[1].v.ok)
          => /\ outcome'[1].some
             /\ ClientResponse(outcome'[1].v).status = result[1].v.resp.status
             /\ ClientResponse(outcome'[1].v).headers = result[1].v.resp.headers
             /\ ClientResponse(outcome'[1].v).cookies = result[1].v.resp.cookies]_vars

\* The reply of a guest that made a 200 Response, set a header on it, inserted
\* a Cookie and returned the handle.
C24_Witness ==
    /\ outcome[1].some
    /\ outcome[1].v.via = "invocation"
    /\ ClientResponse(outcome[1].v).status = 200
    /\ ClientResponse(outcome[1].v).headers = MapPut(EmptyMap, "x-a", "1")
    /\ ClientResponse(outcome[1].v).cookies =
          <<[event |-> "Added", cookie |-> NewCookie("c", "v")]>>

\* ------------------------------------------------------------------- C25

\* The length of the value a request.* call reads, 0 when there is none.
C25_Len(c, part, n) ==
    IF RequestPart(c, part, n).some THEN Len(RequestPart(c, part, n).v) ELSE 0

\* C25: no host call changes the Request of the running invocation; a
\* request.* call leaves the handle map and the counter as they were, and
\* what it returns is the Request's value after any earlier calls.
C25_RequestImmutable ==
    [][/\ (Tbl(1) # NoCtx /\ ctx'[1] # NoCtx)
          => /\ ctx'[1].request = ctx[1].request
             /\ ctx[1].request \in Requests
       /\ \A part \in RequestParts :
            /\ lastCall'.op = "request_" \o part \o "_length"
               => \A n \in NamesFor(part) :
                     request_length(1, part, n)
                     => /\ ctx' = ctx
                        /\ (lastCall'.err = Ok
                            => lastCall'.val.n = C25_Len(ctx'[1], part, n))
            /\ lastCall'.op = "request_" \o part \o "_get"
               => \A n \in NamesFor(part), len \in BufLens :
                     request_get(1, part, n, len)
                     => /\ ctx' = ctx
                        /\ (lastCall'.err = Ok /\ RequestPart(ctx'[1], part, n).some)
                           => IF part = "body"
                              THEN lastCall'.val.b = ctx'[1].request.body
                              ELSE lastCall'.val.s = RequestPart(ctx'[1], part, n).v]_vars

\* The body of the Request was read whole after the guest had filled its table.
C25_Witness ==
    /\ lastCall.op = "request_body_get"
    /\ lastCall.err = Ok
    /\ lastCall.val.b = <<1>>
    /\ Tbl(1) # NoCtx
    /\ DOMAIN ctx[1].handles # {}
    /\ freed[1] # {}

\* ------------------------------------------------------------------- C26

\* The codes of types::Error.
C26_Codes ==
    {Ok, InvalidHandle, InvalidArgument, InvalidUtf8, InvalidLength,
     HandlesExhausted, InvalidPointer, IntegerOverflow}

\* C26: on every table a guest can build, a remove, a cookie transfer or a
\* take with any handle value ends in a typed code and never in the
\* unreachable!() arm; no host call borrows the table while a borrow of it is
\* held; and every host call made so far returned a typed code.
C26_NoPanic ==
    /\ lastCall.err \in C26_Codes
    /\ \A op \in HostOps : ~AlreadyBorrowed(borrows(op), <<>>)
    /\ Tbl(1) # NoCtx
       => \A h \in GuestHandles :
             /\ remove_response(ctx[1], h).err \in C26_Codes
             /\ remove_cookie(ctx[1], h).err \in C26_Codes
             /\ take_response(ctx[1], h).err \in C26_Codes
             /\ \A k \in GuestHandles, e \in {"Added", "Removed"} :
                   CookieTransfer(ctx[1], h, k, e).err \in C26_Codes

\* A cookie insert was given a Response handle where the Cookie handle goes,
\* and a live Cookie's handle where the Response handle goes.
C26_Witness ==
    /\ lastCall.op = "response_cookie_insert"
    /\ lastCall.err = InvalidHandle
    /\ Tbl(1) # NoCtx
    /\ get_response(ctx[1], lastCall.h2).some
    /\ get_cookie_mut(ctx[1], lastCall.h).some

\* ------------------------------------------------------------------- C27

\* C27: the deadline runs from the moment the target export starts to
\* execute, so the timeout branch can be taken only when the closure has
\* reached the call of the export (or has returned).
C27_DeadlineFromExecution ==
    [][\A i \in Invs : select_timeout(i) => task[i] \in {"running", "finished"}]_vars

\* ------------------------------------------------------------------- C28

\* The dispatcher has taken the timeout branch for the request in slot i.
C28_Abandoned(i) ==
    \/ disp[i] = "await_rx"
    \/ disp[i] = "done" /\ outcome[i].some /\ outcome[i].v.via = "timeout"

\* C28: once the timeout branch has been taken for an invocation, its sandbox
\* makes no further host call.
C28_NoCallAfterAbandon ==
    [][\A i \in Invs :
          C28_Abandoned(i)
          => ~(/\ lastCall' # lastCall
               /\ lastCall'.inv = i
               /\ lastCall'.op \in HostOps)]_vars

\* ------------------------------------------------------------------- C29

\* Everything that belongs to the request in slot j.
C29_Slot(j) ==
    <<disp[j], task[j], req[j], ctx[j], inst[j], chan[j], intr[j], result[j],
      outcome[j], issued[j], freed[j], retired[j], target[j], wasi[j], guest[j]>>

\* C29: the step that abandons invocation i interrupts the Store of i and
\* leaves every other invocation as it was; a Store is interrupted by no
\* other step; and once Server::new has returned, no step changes the
\* module, the environment map or the routing table.
C29_AbandonIsLocal ==
    [][/\ \A i \in Invs :
            /\ rx_received(i)
               => /\ intr'[i]
                  /\ \A j \in Invs \ {i} : C29_Slot(j)' = C29_Slot(j)
            /\ (intr'[i] /\ ~intr[i]) => rx_received(i)
       /\ srv.phase = "serving" => srv' = srv]_vars

\* Invocation 1 was abandoned and interrupted while the sandbox of
\* invocation 2 runs its export, not interrupted, under the same server.
C29_Witness ==
    /\ srv.phase = "serving"
    /\ intr[1]
    /\ outcome[1].some /\ outcome[1].v.via = "timeout"
    /\ task[2] = "running" /\ inst[2] /\ ~intr[2]

\* ------------------------------------------------------------------- C30

\* The module with nothing but its two descriptor sections.
C30_Bare == [srv.module EXCEPT !.sections = SubSeq(@, 1, 2)]

\* C30: what from_module_bytes returns does not depend on the payloads that
\* are not the __functions or __vars section; from intact sections without
\* repeated names it returns the descriptors written, in the order of the
\* records; and a module that declares no function is read successfully
\* with an empty function list, Server::new being what refuses it.
C30_OnlyDescriptorSections ==
    /\ from_module_bytes(srv.module) = from_module_bytes(C30_Bare)
    /\ (Intact /\ Repeated(WrittenNames) = {} /\ Repeated(WrittenVars) = {})
       => /\ from_module_bytes(srv.module)
                = Okay([functions |-> WrittenFunctions, vars |-> WrittenVars])
          /\ (srv.loaded.some /\ WrittenFunctions = <<>>)
             => /\ srv.loaded.v = Okay([functions |-> <<>>, vars |-> WrittenVars])
                /\ srv.phase = "failed"
                /\ srv.error = "module contains no Wasmtime functions"

\* A module with variables, no function, and a custom section `name` holding
\* what would read as a function record was read: no function was found.
C30_Witness ==
    /\ srv.loaded.some /\ srv.loaded.v.ok
    /\ srv.loaded.v.v.functions = <<>>
    /\ srv.loaded.v.v.vars = <<"A", "hello">>
    /\ Len(srv.module.sections) = 3
    /\ srv.module.sections[3].name = "name"
    /\ srv.error = "module contains no Wasmtime functions"

\* ------------------------------------------------------------------- C31

\* C31: response.new with a status that is no HTTP status fails with
\* InvalidArgument and leaves the handle map and the counter as they were, so
\* that the next allocation returns what it would have returned without the
\* failed call.
C31_BadStatusTakesNoHandle ==
    [][response_new(1, 99)
       => /\ lastCall'.err = InvalidArgument
          /\ ctx'[1].handles = ctx[1].handles
          /\ ctx'[1].last_handle = ctx[1].last_handle
          /\ insert_response(ctx'[1], 200).err = insert_response(ctx[1], 200).err
          /\ insert_response(ctx'[1], 200).val = insert_response(ctx[1], 200).val
          /\ insert_cookie(ctx'[1], "c", "v").val = insert_cookie(ctx[1], "c", "v").val]_vars

\* response.new was refused for its status on a table that had already
\* handed out a handle and can hand out more.
C31_Witness ==
    /\ lastCall.op = "response_new"
    /\ lastCall.err = InvalidArgument
    /\ Tbl(1) # NoCtx
    /\ ctx[1].last_handle = 1
    /\ issued[1] = {1}

\* ------------------------------------------------------------------- C32

\* C32: a response.cookie_insert or response.cookie_remove that returns
\* InvalidHandle leaves the handle table as it was; a live Cookie passed with
\* a handle that names no Response is still a live Cookie afterwards.
C32_FailedTransferKeepsTable ==
    [][(/\ lastCall'.err = InvalidHandle
        /\ \/ response_cookie_insert(1, lastCall'.h, lastCall'.h2)
           \/ response_cookie_remove(1, lastCall'.h, lastCall'.h2))
       => /\ ctx' = ctx
          /\ get_cookie_mut(ctx[1], lastCall'.h2).some
             => get_cookie_mut(ctx'[1], lastCall'.h2) = get_cookie_mut(ctx[1], lastCall'.h2)]_vars

\* ------------------------------------------------------------------- C33

\* C33: a response.body_set that fails, for its handle or for a byte slice
\* that cannot be read, leaves the body of every Response as it was.
C33_FailedSetKeepsBody ==
    [][\A b \in Bodies, ok \in BOOLEAN :
          (/\ lastCall'.err # Ok
           /\ response_body_set(1, lastCall'.h,
                                IF ok THEN GoodSlice(b) ELSE BadSlice(Len(b))))
          => \A h \in DOMAIN ctx[1].handles :
                get_response(ctx[1], h).some
                => /\ h \in DOMAIN ctx'[1].handles
                   /\ ctx'[1].handles[h].body = ctx[1].handles[h].body]_vars

\* ------------------------------------------------------------------- C34

\* C34: the closure reaches the call of the target export only from a
\* hand-over of the interrupt handle that succeeded; a hand-over that finds
\* the dispatcher side of the request gone ends the closure with an error,
\* and the export is not called.
C34_HandOverFirst ==
    [][\A i \in Invs :
          /\ (task'[i] = "running" /\ task[i] # "running")
             => /\ task[i] = "lookup"
                /\ chan[i] = "sent"
          /\ (task'[i] = "lookup" /\ task[i] # "lookup")
             => /\ send_interrupt(i)
                /\ disp[i] # "gone"
                /\ chan'[i] = "sent"
          /\ (send_interrupt(i) /\ disp[i] = "gone")
             => /\ task'[i] = "finished"
                /\ result'[i] = Some(ErrResult("failed to send interrupt handle."))
                /\ chan'[i] # "sent"
                /\ ~inst'[i]]_vars

\* The request of slot 1 was dropped before the closure could hand over the
\* handle; the closure ended with the hand-over error.
C34_Witness ==
    /\ disp[1] = "gone"
    /\ task[1] = "finished"
    /\ chan[1] = "canceled"
    /\ result[1] = Some(ErrResult("failed to send interrupt handle."))

\* ------------------------------------------------------------------- C35

\* The step is a successful response.body_set on the Response under h.
C35_SetOn(h) ==
    /\ lastCall'.op = "response_body_set"
    /\ lastCall'.err = Ok
    /\ lastCall'.h = h

\* C35: the body stored for a Response is empty when the Response is created,
\* becomes the bytes passed by each successful response.body_set on it, and
\* is changed by nothing else, so that what is returned in the reply is the
\* bytes of the last successful body_set; body_length and body_get report
\* the stored bytes.
C35_BodyIsLastSet ==
    [][/\ (lastCall'.err = Ok /\ \E st \in StatusArgs : response_new(1, st))
          => ctx'[1].handles[lastCall'.val.n].body = <<>>
       /\ \A b \in Bodies :
            (lastCall'.err = Ok /\ response_body_set(1, lastCall'.h, GoodSlice(b)))
            => ctx'[1].handles[lastCall'.h].body = b
       /\ \A h \in DOMAIN ctx[1].handles :
            (/\ get_response(ctx[1], h).some
             /\ h \in DOMAIN ctx'[1].handles
             /\ ~C35_SetOn(h))
            => ctx'[1].handles[h].body = ctx[1].handles[h].body
       /\ (lastCall'.err = Ok /\ response_body_length(1, lastCall'.h))
          => lastCall'.val.n = Len(ctx[1].handles[lastCall'.h].body)
       /\ \A len \in 0..1 :
            (lastCall'.err = Ok /\ response_body_get(1, lastCall'.h, len))
            => lastCall'.val.b = ctx[1].handles[lastCall'.h].body]_vars


\* ------------------------------------------------- the safe guest API

\* The program in sandbox i is written against the safe API and has not
\* panicked.
InProgram(i) == InGuest(i) /\ guest[i].safe /\ ~guest[i].panicked

\* ResponseBuilder::new (also Response::build, and the From conversions that
\* build a Response).
ResponseBuilder_new(i, status) ==
    /\ InProgram(i)
    /\ Room(i, MaxTableHandles) \/ ~ValidStatus(status)
    /\ response_new(i, status)

\* ResponseBuilder::header, on a builder the program holds.
ResponseBuilder_header(i, h, name, value) ==
    /\ InProgram(i) /\ h \in guest[i].responses
    /\ response_header_set(i, h, name, value)

\* ResponseBuilder::insert_cookie, on a builder and a Cookie the program holds.
ResponseBuilder_insert_cookie(i, h, cookie) ==
    /\ InProgram(i) /\ h \in guest[i].responses /\ cookie \in guest[i].cookies
    /\ response_cookie_insert(i, h, cookie)

\* ResponseBuilder::remove_cookie.
ResponseBuilder_remove_cookie(i, h, cookie) ==
    /\ InProgram(i) /\ h \in guest[i].responses /\ cookie \in guest[i].cookies
    /\ response_cookie_remove(i, h, cookie)

\* ResponseBuilder::body: the body is set and the Response inside the builder
\* is handed back.
ResponseBuilder_body(i, h, body) ==
    /\ InProgram(i) /\ h \in guest[i].responses
    /\ response_body_set(i, h, GoodSlice(body))

\* Response::status.
Response_status(i, h) ==
    /\ InProgram(i) /\ h \in guest[i].responses
    /\ response_status_get(i, h)

\* Response::body: the length is asked for, then a buffer of that length is
\* filled.
Response_body(i, h) ==
    /\ InProgram(i) /\ h \in guest[i].responses
    /\ \/ response_body_length(i, h)
       \/ /\ lastCall.op = "response_body_length" /\ lastCall.h = h
          /\ response_body_get(i, h, lastCall.val.n)

\* Drop for Response (a ResponseBuilder that is dropped drops its Response).
Response_drop(i, h) ==
    /\ InProgram(i) /\ h \in guest[i].responses
    /\ response_free(i, h)

\* CookieBuilder::new (also Cookie::build).
CookieBuilder_new(i, name, value) ==
    /\ InProgram(i) /\ Room(i, MaxTableHandles)
    /\ cookie_new(i, name, value)

\* CookieBuilder::http_only and CookieBuilder::path, two of the attribute
\* setters; each calls its import with the handle of the builder.
CookieBuilder_set(i, h) ==
    /\ InProgram(i) /\ h \in guest[i].cookies /\ AttrRoom(i, h)
    /\ cookie_http_only_set(i, h) \/ cookie_path_set(i, h, "/")

\* Drop for Cookie (a CookieBuilder that is dropped drops its Cookie).
Cookie_drop(i, h) ==
    /\ InProgram(i) /\ h \in guest[i].cookies
    /\ cookie_free(i, h)

\* The generated export returns Response::into_raw of what the user function
\* returned: every other value of the function has gone out of scope.
Response_into_raw(i, h) ==
    /\ InProgram(i) /\ guest[i].responses = {h} /\ guest[i].cookies = {}
    /\ export_return(i, h)

\* One sandbox running the export of a program written against the safe API.
ApiInit ==
    \E r \in Requests, n \in CounterStarts :
        RunningAs([NewContext(r) EXCEPT !.last_handle = n],
                  [NoGuest EXCEPT !.safe = TRUE])

\* The steps of such a program: any method on a value it holds; a panic (or
\* the interrupt) traps the export.
ApiNext ==
    \/ \E s \in {200, 99} : ResponseBuilder_new(1, s)
    \/ \E h \in GuestHandles, n \in HeaderNames, v \in HeaderValues :
          ResponseBuilder_header(1, h, n, v)
    \/ \E h, k \in GuestHandles : ResponseBuilder_insert_cookie(1, h, k)
    \/ \E h, k \in GuestHandles : ResponseBuilder_remove_cookie(1, h, k)
    \/ \E h \in GuestHandles, b \in Bodies : ResponseBuilder_body(1, h, b)
    \/ \E h \in GuestHandles : Response_status(1, h)
    \/ \E h \in GuestHandles : Response_body(1, h)
    \/ \E h \in GuestHandles : Response_drop(1, h)
    \/ CookieBuilder_new(1, "c", "v")
    \/ \E h \in GuestHandles : CookieBuilder_set(1, h)
    \/ \E h \in GuestHandles : Cookie_drop(1, h)
    \/ \E h \in GuestHandles : Response_into_raw(1, h)
    \/ export_trap(1)
    \/ select_invocation(1)

ApiSpec == ApiInit /\ [][ApiNext]_vars

\* How often handle h occurs among the handles the program has let go of.
Releases(g, h) == Cardinality({k \in DOMAIN g.released : g.released[k] = h})

\* C36: in a program written against Response, ResponseBuilder, Cookie and
\* CookieBuilder, the values the program holds are exactly the Responses and
\* Cookies of the table, so that no call names a handle the host has retired
\* (no import and no return fails with InvalidHandle); no handle is let go
\* of twice; and once the export has returned, every handle the program
\* obtained was let go of exactly once: by a drop, by a transfer into a
\* Response, or by the return.
C36_EachHandleReleasedOnce ==
    LET g == guest[1] IN
    /\ lastCall.err # InvalidHandle
    /\ \A h \in g.obtained : Releases(g, h) <= 1
    /\ \A h \in g.obtained : Releases(g, h) = 1 <=> h \notin g.responses \cup g.cookies
    /\ (task[1] = "running" /\ ~g.panicked) =>
          /\ g.responses = {h \in DOMAIN ctx[1].handles : get_response(ctx[1], h).some}
          /\ g.cookies = {h \in DOMAIN ctx[1].handles : get_cookie_mut(ctx[1], h).some}
          /\ g.responses \cap g.cookies = {}
    /\ (task[1] = "finished" /\ lastCall.op = "export_return") =>
          /\ result[1].some => result[1].v.ok
          /\ \A h \in g.obtained : Releases(g, h) = 1

\* The program built a Cookie and a Response, moved the Cookie into the
\* Response and returned the Response.
C36_Witness ==
    /\ task[1] = "finished" /\ lastCall.op = "export_return"
    /\ Cardinality(guest[1].obtained) = 2
    /\ Len(guest[1].released) = 2
    /\ result[1].some /\ result[1].v.ok /\ result[1].v.resp.cookies # <<>>


\* ------------------------------------------------- the http macro

\* How many method names the `methods` text of an http attribute lists.
MaxMethods == 2

\* A text is a sequence of characters. The letters, in both cases.
UpperCase ==
    <<"A", "B", "C", "D", "E", "F", "G", "H", "I", "J", "K", "L", "M",
      "N", "O", "P", "Q", "R", "S", "T", "U", "V", "W", "X", "Y", "Z">>
LowerCase ==
    <<"a", "b", "c", "d", "e", "f", "g", "h", "i", "j", "k", "l", "m",
      "n", "o", "p", "q", "r", "s", "t", "u", "v", "w", "x", "y", "z">>

\* str::to_lowercase: every upper-case letter becomes its lower-case letter.
to_lowercase(text) ==
    [k \in 1..Len(text) |->
        IF \E n \in DOMAIN UpperCase : UpperCase[n] = text[k]
        THEN LowerCase[CHOOSE n \in DOMAIN UpperCase : UpperCase[n] = text[k]]
        ELSE text[k]]

\* str::trim: the white space at both ends is taken off.
WhiteSpace == {" ", "\t"}
RECURSIVE trim(_)
trim(text) ==
    IF text = <<>> THEN text
    ELSE IF Head(text) \in WhiteSpace THEN trim(Tail(text))
    ELSE IF text[Len(text)] \in WhiteSpace THEN trim(SubSeq(text, 1, Len(text) - 1))
    ELSE text

\* str::split(','): the pieces between the commas; a text without a comma is
\* one piece, the empty text is one empty piece.
RECURSIVE split(_, _)
split(text, piece) ==
    IF text = <<>> THEN <<piece>>
    ELSE IF Head(text) = "," THEN <<piece>> \o split(Tail(text), <<>>)
    ELSE split(Tail(text), Append(piece, Head(text)))

\* The variants of enum Method and how each is spelled (the variant's name
\* in upper case, which is also how it is serialized).
MethodSpelling ==
    <<[method |-> "GET", name |-> <<"G", "E", "T">>],
      [method |-> "HEAD", name |-> <<"H", "E", "A", "D">>],
      [method |-> "POST", name |-> <<"P", "O", "S", "T">>],
      [method |-> "PUT", name |-> <<"P", "U", "T">>],
      [method |-> "DELETE", name |-> <<"D", "E", "L", "E", "T", "E">>],
      [method |-> "CONNECT", name |-> <<"C", "O", "N", "N", "E", "C", "T">>],
      [method |-> "OPTIONS", name |-> <<"O", "P", "T", "I", "O", "N", "S">>],
      [method |-> "TRACE", name |-> <<"T", "R", "A", "C", "E">>],
      [method |-> "PATCH", name |-> <<"P", "A", "T", "C", "H">>]>>

\* The arms of the match in parse_methods, in their order.
MethodArms ==
    <<[name |-> <<"g", "e", "t">>, method |-> "GET"],
      [name |-> <<"h", "e", "a", "d">>, method |-> "HEAD"],
      [name |-> <<"p", "o", "s", "t">>, method |-> "POST"],
      [name |-> <<"p", "u", "t">>, method |-> "PUT"],
      [name |-> <<"d", "e", "l", "e", "t", "e">>, method |-> "DELETE"],
      [name |-> <<"c", "o", "n", "n", "e", "c", "t">>, method |-> "CONNECT"],
      [name |-> <<"o", "p", "t", "i", "o", "n", "s">>, method |-> "OPTIONS"],
      [name |-> <<"t", "r", "a", "c", "e">>, method |-> "TRACE"],
      [name |-> <<"p", "a", "t", "h">>, method |-> "PATCH"]>>

\* The Result of parse_methods: Ok(methods), or the Error naming the piece
\* that is no method.
Methods_Ok(methods) == [ok |-> TRUE, methods |-> methods, unsupported |-> <<>>, msg |-> ""]
Methods_Err(m, msg) == [ok |-> FALSE, methods |-> <<>>, unsupported |-> m, msg |-> msg]

\* The loop of parse_methods over the pieces: each is trimmed, lowered and
\* matched; the first that matches no arm ends the loop with the Error.
RECURSIVE parse_pieces(_, _)
parse_pieces(pieces, methods) ==
    IF pieces = <<>> THEN Methods_Ok(methods)
    ELSE LET m == Head(pieces)
             key == to_lowercase(trim(m))
             arms == {n \in DOMAIN MethodArms : MethodArms[n].name = key}
         IN IF arms = {} THEN Methods_Err(m, "unsupported HTTP method")
            ELSE parse_pieces(Tail(pieces),
                              Append(methods, MethodArms[CHOOSE n \in arms : TRUE].method))

parse_methods(s) ==
    LET r == parse_pieces(split(s, <<>>), <<>>) IN
    IF r.ok /\ r.methods = <<>>
    THEN Methods_Err(<<>>, "at least one HTTP method is required")
    ELSE r

\* The http macro: the `methods` text of the attribute is parsed; an Error
\* becomes a compile error.
http(text) ==
    /\ srv.attribute.some /\ srv.attribute.v.text = text
    /\ ~srv.attribute.v.result.some
    /\ srv' = [srv EXCEPT !.attribute = Some([text |-> text,
                                               result |-> Some(parse_methods(text))])]
    /\ UNCHANGED requests

\* Method texts: the nine names in upper and in lower case and one in mixed
\* case; and texts that name no method.
MethodWords ==
    {MethodSpelling[n].name : n \in DOMAIN MethodSpelling}
    \cup {to_lowercase(MethodSpelling[n].name) : n \in DOMAIN MethodSpelling}
    \cup {<<"P", "a", "t", "c", "h">>, <<"p", "a", "t", "h">>,
          <<"f", "e", "t", "c", "h">>, <<>>}

\* A word as it may stand in the list: bare, or with white space around it.
Padded(w) == {w, <<" ">> \o w \o <<" ">>, <<"\t">> \o w}

\* The lists of 1 to n words, separated by commas.
RECURSIVE MethodLists(_)
MethodLists(n) ==
    LET one == UNION {Padded(w) : w \in MethodWords} IN
    IF n <= 1 THEN one
    ELSE MethodLists(n - 1)
         \cup {l \o <<",">> \o w : l \in MethodLists(n - 1), w \in one}

\* An http attribute with some `methods` text is about to be expanded.
MacroInit ==
    /\ NoRequests
    /\ \E text \in MethodLists(MaxMethods) :
          srv = [ServerOf(EmptyModule, EmptyMap, TRUE) EXCEPT
                    !.attribute = Some([text |-> text, result |-> None])]

MacroNext == \E text \in MethodLists(MaxMethods) : http(text)

MacroSpec == MacroInit /\ [][MacroNext]_vars

\* The method a piece of the list names: the one whose spelling it is, apart
\* from case and white space around it.
Named(piece) ==
    {n \in DOMAIN MethodSpelling :
        to_lowercase(MethodSpelling[n].name) = to_lowercase(trim(piece))}

\* C37: parse_methods accepts a comma-separated list in which every piece is,
\* apart from case and surrounding white space, the name of one of the nine
\* methods of enum Method, and returns the methods so named in order; it
\* rejects every other text.
C37_NamesOfTheNineMethods ==
    (srv.attribute.some /\ srv.attribute.v.result.some) =>
        LET pieces == split(srv.attribute.v.text, <<>>)
            r == srv.attribute.v.result.v
        IN IF \A k \in DOMAIN pieces : Named(pieces[k]) # {}
           THEN /\ r.ok
                /\ r.methods = [k \in DOMAIN pieces |->
                                  MethodSpelling[CHOOSE n \in Named(pieces[k]) : TRUE].method]
           ELSE ~r.ok
====
